---- MODULE Spec2Model ----
(***************************************************************************)
(* A model of the dual simplex helpers of cuopt:                           *)
(*   - the singleton orderer (dual_simplex/singletons.cpp),                *)
(*   - the permutation helpers (dual_simplex/vector_math.hpp),             *)
(*   - the branch-and-bound worker (dual_simplex/bnb_worker.hpp).          *)
(* Arrays keep the 0-based indices of the source: a std::vector of size k  *)
(* is a function with domain 0..k-1.                                       *)
(***************************************************************************)
EXTENDS Integers, Sequences, FiniteSets, TLC

\* ------------------------------------------------------------------ bounds
\* Largest number of rows of an input matrix.
MaxM == 3
\* Largest number of columns of an input matrix.
MaxN == 3
\* Largest number of structural nonzeros of an input matrix.
MaxNnz == 5
\* Largest length of a vector handed to the permutation helpers.
MaxLen == 3
\* Largest entry of such a vector.
MaxValue == 1
\* Number of nodes of the shared branch-and-bound tree.
NumNodes == 2
\* Number of variables of the LP.
NumVars == 2
\* Largest value of a variable bound and of a node's lower bound.
MaxBound == 1
\* Number of rows of the LP: the size of a basis.
NumRows == 1
\* Basis updates the worker applies before it asks for a new factorization.
MaxUpdates == 2
\* Largest dimension of a matrix handed to right_looking_lu.
LuN == 2
\* Largest entry of such a matrix.
LuMaxAbs == 2
\* Largest number of nonzeros of such a matrix.
LuMaxNnz == 4
\* Largest value stored in a solution object.
SiMaxValue == 1
\* Number of worker threads that report into the shared statistics.
NumWorkers == 2
\* Largest number of loads and increments of the shared counters in a solve.
MaxOps == 3
\* Largest amount a worker adds to a counter at once.
MaxDelta == 2
\* The number of predict_scalar calls on one predictor.
MaxCalls == 3

VARIABLES
  pc,                \* position inside find_singletons
  A,                 \* the input CSC matrix: [m, n, col_start, i]
  Cdeg, Rdeg,        \* degree arrays (line 182-183)
  Rp, Rj,            \* row representation (line 184-185)
  row_form,          \* line 208
  singleton_queue,   \* line 189
  singletons_found,  \* line 209
  last,              \* line 262
  col_singletons, row_singletons,
  col_perm, row_perm,
  num_empty_cols, num_empty_rows,
  ret,               \* the value returned by find_singletons
  enq,               \* history: pushes of each entity in the current pass
  row_builds,        \* history: calls of create_row_representation
  \* vector_math.hpp
  vm_pc,             \* which helpers have run
  vm_p, vm_b,        \* the permutation p and the input vector b
  vm_x, vm_y,        \* permute_vector's output, inverse_permute_vector's output
  pinv_in, pinv,     \* inverse_permutation's output: before the call, now
  \* bnb_worker.hpp
  w_pc,              \* position of the worker's thread
  nodes,             \* the shared tree: node id -> mip_node_t
  original_lp,       \* [lower, upper]
  arg_node,          \* the node argument of the call in progress
  worker_type, is_active, lower_bound,
  start_lower, start_upper, start_node,
  internal_node,
  at_call,           \* history: the worker's fields when the call in progress began
  leaf_problem,      \* line 36: the worker's leaf LP, [lower, upper]
  basis_factors,     \* line 38: the updates applied since the last factorization
  basic_list, nonbasic_list,           \* lines 39-40
  recompute_basis, recompute_bounds,   \* lines 49-50
  dv_ret,            \* the value returned by init_diving
  lp_ret,            \* the value returned by set_lp_variable_bounds_for
  lp_fresh,          \* history: "set" once set_lp_variable_bounds_for ran for the node
                     \* the worker holds, "basis" once only the basis changed since,
                     \* "again" once it ran again after that, "no" otherwise
  rd_seen,           \* the reader's snapshot: field -> value read during the call
  rd_order,          \* the fields of the snapshot in the order they were read
                     \* of init_best_first in progress
  \* bnb_stats_t and the workers that report into it
  st_pc,             \* the solve: "running" or "finished"
  stats,             \* lines 21-25: counter -> value
  st_reg,            \* per worker: the counter value it loaded last, [counter, value]
  st_ops,            \* loads and increments done so far
  st_contrib,        \* history: per worker and counter, the sum of its increments
  \* right_looking_lu.hpp
  lu_pc,             \* position inside right_looking_lu
  lu_A,              \* the input matrix A: <<row, column>> -> entry
  lu_tol,            \* the pivoting tolerance tol
  column_list,       \* the prescribed column visitation order
  lu_k,              \* the number of columns pivoted so far
  lu_S,              \* the remaining, not yet factored submatrix after the updates
  lu_L, lu_U,        \* the factors, by original row / original column
  lu_q, lu_pinv,     \* the column order used, the row permutation
  lu_ret,            \* the value returned by right_looking_lu
  \* optimization_problem_solution_interface.hpp
  si_pc,             \* "ready", or "called" once an accessor was called
  si_sol,            \* the solution object behind the base-class pointer
  si_call,           \* the accessor called
  si_res,            \* its outcome: [threw, value]
  \* work_unit_predictor.cpp
  pr_pc,             \* "ready", "returned" after a call, "abort" after a failed assert
  is_valid,          \* line 86
  raw_handle,        \* line 63; 0 is nullptr
  ndebug,            \* the build: TRUE when assert is compiled out
  booster,           \* the loaded model (lines 79, 128)
  prediction_cache,  \* hash -> prediction (lines 105, 146)
  pr_features,       \* the argument of the last call
  pr_ret,            \* the value the last call returned
  pr_calls           \* the number of calls made

fsVars == <<pc, A, Cdeg, Rdeg, Rp, Rj, row_form, singleton_queue, singletons_found,
            last, col_singletons, row_singletons, col_perm, row_perm,
            num_empty_cols, num_empty_rows, ret, enq, row_builds>>

vmVars == <<vm_pc, vm_p, vm_b, vm_x, vm_y, pinv_in, pinv>>

\* The worker's private solver state (lines 36-40, 49-50).
wpState == <<leaf_problem, basis_factors, basic_list, nonbasic_list, recompute_basis,
             recompute_bounds>>

wpVars == <<wpState, dv_ret, lp_ret, lp_fresh>>

rdVars == <<rd_seen, rd_order>>

wkVars == <<w_pc, nodes, original_lp, arg_node, worker_type, is_active, lower_bound,
            start_lower, start_upper, start_node, internal_node, at_call, wpVars, rdVars>>

stVars == <<st_pc, stats, st_reg, st_ops, st_contrib>>

luVars == <<lu_pc, lu_A, lu_tol, column_list, lu_k, lu_S, lu_L, lu_U, lu_q, lu_pinv,
            lu_ret>>

siVars == <<si_pc, si_sol, si_call, si_res>>

prVars == <<pr_pc, is_valid, raw_handle, ndebug, booster, prediction_cache, pr_features,
            pr_ret, pr_calls>>

vars == <<fsVars, vmVars, wkVars, stVars, luVars, siVars, prVars, prVars>>

\* ------------------------------------------------------------------ helpers
Max(a, b) == IF a >= b THEN a ELSE b

Range(f) == {f[k] : k \in DOMAIN f}

\* A std::vector of size k holding v everywhere.
Vec(k, v) == [x \in 0..(k - 1) |-> v]

\* f is a bijection on [0,k)
IsBijection(f, k) ==
  /\ DOMAIN f = 0..(k - 1)
  /\ \A x \in 0..(k - 1) : \E y \in 0..(k - 1) : f[y] = x
  /\ \A x, y \in 0..(k - 1) : f[x] = f[y] => x = y

\* The sequences over S without a repeated element.
DupFreeSeqs(S) ==
  UNION {{s \in [1..k -> S] : \A a, b \in 1..k : s[a] = s[b] => a = b} :
         k \in 0..Cardinality(S)}

RECURSIVE SumLen(_, _)
SumLen(cols, j) == IF j = 0 THEN 0 ELSE SumLen(cols, j - 1) + Len(cols[j - 1])

RECURSIVE Concat(_, _)
Concat(cols, j) == IF j = 0 THEN <<>> ELSE Concat(cols, j - 1) \o cols[j - 1]

\* csc_matrix_t: m rows, n columns, col_start of size n+1, row indices i of size nz.
CscMatrix(m, n, cols) ==
  LET flat == Concat(cols, n)
  IN  [m |-> m, n |-> n,
       col_start |-> [j \in 0..n |-> SumLen(cols, j)],
       i |-> [p \in 0..(Len(flat) - 1) |-> flat[p + 1]]]

\* Structural nonzero of A at (r, c).
HasEntry(M, r, c) ==
  \E p \in M.col_start[c]..(M.col_start[c + 1] - 1) : M.i[p] = r

\* Marks an eliminated row/column: the bit complement of its degree.
FLIP(x) == -x - 1

kEmpty == -1

\* ------------------------------------------------- create_row_representation
\* cumulative_sum(workspace, row_start): row_start[k] is the sum of the counts
\* before k, row_start[m] the total; workspace is overwritten by row_start[0..m).
RECURSIVE PrefixSum(_, _)
PrefixSum(c, k) == IF k = 0 THEN 0 ELSE PrefixSum(c, k - 1) + c[k - 1]

cumulative_sum(workspace, m) ==
  [row_start |-> [k \in 0..m |-> PrefixSum(workspace, k)],
   workspace |-> [k \in 0..(m - 1) |-> PrefixSum(workspace, k)]]

\* Lines 121-124: count the entries of each row.
RECURSIVE RowCounts(_, _, _)
RowCounts(M, p, w) ==
  IF p >= M.col_start[M.n] THEN w
  ELSE RowCounts(M, p + 1, [w EXCEPT ![M.i[p]] = @ + 1])

\* Lines 131-138: scatter the column index of every entry into its row.
RECURSIVE ScatterCols(_, _, _, _, _)
ScatterCols(M, j, p, w, col_index) ==
  IF j >= M.n THEN col_index
  ELSE IF p >= M.col_start[j + 1] THEN
         ScatterCols(M, j + 1, M.col_start[j + 1], w, col_index)
  ELSE LET q == w[M.i[p]]
       IN  ScatterCols(M, j, p + 1, [w EXCEPT ![M.i[p]] = @ + 1],
                       [col_index EXCEPT ![q] = j])

create_row_representation(M, col_index) ==
  LET counts == RowCounts(M, 0, Vec(M.m, 0))
      cs     == cumulative_sum(counts, M.m)
  IN  [row_start |-> cs.row_start,
       col_index |-> ScatterCols(M, 0, 0, cs.workspace, col_index)]

\* ---------------------------------------------------------- order_singletons
\* row_col_graph_t: Xdeg, Xperm, Xp, Xi, Ydeg, Yperm, Yp, Yi (lines 217-224, 251-258).
\* Lines 50-56: the number of live neighbours of xpivot (debug builds).
LiveNeighbours(G, xpivot) ==
  Cardinality({p \in G.Xp[xpivot]..(G.Xp[xpivot + 1] - 1) : G.Ydeg[G.Xi[p]] >= 0})

\* FindPivot without the test of line 64: the first neighbour of xpivot,
\* eliminated or not.
FindPivotAny(G, p, xend) ==
  IF p >= xend THEN kEmpty ELSE G.Xi[p]

\* Lines 61-69: the first neighbour of xpivot that is not eliminated, or kEmpty.
RECURSIVE FindPivot(_, _, _)
FindPivot(G, p, xend) ==
  IF p >= xend THEN kEmpty
  ELSE IF G.Ydeg[G.Xi[p]] >= 0 THEN G.Xi[p]
  ELSE FindPivot(G, p + 1, xend)

\* DecrementLoop without the push of line 85: a new singleton is forgotten.
RECURSIVE DecrementLoopNoPush(_, _, _, _, _)
DecrementLoopNoPush(G, p, yend, xpivot, st) ==
  IF p >= yend THEN st
  ELSE LET x == G.Yi[p]
       IN  IF st.Xdeg[x] < 0 THEN DecrementLoopNoPush(G, p + 1, yend, xpivot, st)
           ELSE IF x = xpivot THEN
                  DecrementLoopNoPush(G, p + 1, yend, xpivot,
                                      [st EXCEPT !.ok = @ /\ st.Xdeg[x] > 0])
           ELSE LET degree == st.Xdeg[x] - 1
                IN  DecrementLoopNoPush(G, p + 1, yend, xpivot,
                      [Xdeg  |-> [st.Xdeg EXCEPT ![x] = degree],
                       queue |-> st.queue,
                       ok    |-> st.ok /\ st.Xdeg[x] > 0 /\ degree >= 0])

\* DecrementLoop with the test of line 83 as degree <= 1: an entity that falls
\* from 1 to 0 is pushed again.
RECURSIVE DecrementLoopPushTwice(_, _, _, _, _)
DecrementLoopPushTwice(G, p, yend, xpivot, st) ==
  IF p >= yend THEN st
  ELSE LET x == G.Yi[p]
       IN  IF st.Xdeg[x] < 0 THEN DecrementLoopPushTwice(G, p + 1, yend, xpivot, st)
           ELSE IF x = xpivot THEN
                  DecrementLoopPushTwice(G, p + 1, yend, xpivot,
                                         [st EXCEPT !.ok = @ /\ st.Xdeg[x] > 0])
           ELSE LET degree == st.Xdeg[x] - 1
                IN  DecrementLoopPushTwice(G, p + 1, yend, xpivot,
                      [Xdeg  |-> [st.Xdeg EXCEPT ![x] = degree],
                       queue |-> IF degree <= 1 THEN Append(st.queue, x) ELSE st.queue,
                       ok    |-> st.ok /\ st.Xdeg[x] > 0 /\ degree >= 0])

\* DecrementLoop with the decrement of line 81 withheld from a degree of one:
\* the neighbour keeps a degree of 1 after its last live neighbour is gone.
RECURSIVE DecrementLoopKeepOne(_, _, _, _, _)
DecrementLoopKeepOne(G, p, yend, xpivot, st) ==
  IF p >= yend THEN st
  ELSE LET x == G.Yi[p]
       IN  IF st.Xdeg[x] < 0 THEN DecrementLoopKeepOne(G, p + 1, yend, xpivot, st)
           ELSE IF x = xpivot THEN
                  DecrementLoopKeepOne(G, p + 1, yend, xpivot,
                                       [st EXCEPT !.ok = @ /\ st.Xdeg[x] > 0])
           ELSE LET degree == Max(st.Xdeg[x] - 1, 1)
                IN  DecrementLoopKeepOne(G, p + 1, yend, xpivot,
                      [Xdeg  |-> [st.Xdeg EXCEPT ![x] = degree],
                       queue |-> IF degree = 1 /\ st.Xdeg[x] # 1
                                 THEN Append(st.queue, x) ELSE st.queue,
                       ok    |-> st.ok /\ st.Xdeg[x] > 0 /\ degree >= 0])

\* Lines 76-87: decrement the degree of every other live neighbour of ypivot.
\* st = [Xdeg, queue, ok]; ok turns FALSE when an assertion of the loop fails.
RECURSIVE DecrementLoop(_, _, _, _, _)
DecrementLoop(G, p, yend, xpivot, st) ==
  IF p >= yend THEN st
  ELSE LET x == G.Yi[p]
       IN  IF st.Xdeg[x] < 0 THEN DecrementLoop(G, p + 1, yend, xpivot, st)
           ELSE IF x = xpivot THEN
                  DecrementLoop(G, p + 1, yend, xpivot,
                                [st EXCEPT !.ok = @ /\ st.Xdeg[x] > 0])
           ELSE LET degree == st.Xdeg[x] - 1
                IN  DecrementLoop(G, p + 1, yend, xpivot,
                      [Xdeg  |-> [st.Xdeg EXCEPT ![x] = degree],
                       queue |-> IF degree = 1 THEN Append(st.queue, x) ELSE st.queue,
                       ok    |-> st.ok /\ st.Xdeg[x] > 0 /\ degree >= 0])

\* order_singletons_step with line 95 storing xpivot in Yperm.
order_singletons_step_same_perm(queue, found, G) ==
  LET xpivot == Head(queue)
      rest   == Tail(queue)
      same   == [queue |-> rest, found |-> found, Xdeg |-> G.Xdeg, Ydeg |-> G.Ydeg,
                 Xperm |-> G.Xperm, Yperm |-> G.Yperm, ok |-> TRUE]
  IN  IF G.Xdeg[xpivot] < 0 THEN [same EXCEPT !.ok = FALSE]
      ELSE IF G.Xdeg[xpivot] # 1 THEN [same EXCEPT !.ok = (G.Xdeg[xpivot] = 0)]
      ELSE LET ypivot == FindPivot(G, G.Xp[xpivot], G.Xp[xpivot + 1])
           IN  IF \/ LiveNeighbours(G, xpivot) # 1
                      \/ ypivot = kEmpty
                      \/ G.Ydeg[ypivot] < 0
               THEN [same EXCEPT !.ok = FALSE]
               ELSE LET dec == DecrementLoop(G, G.Yp[ypivot], G.Yp[ypivot + 1], xpivot,
                                             [Xdeg |-> G.Xdeg, queue |-> rest, ok |-> TRUE])
                    IN  [queue |-> dec.queue,
                         found |-> found + 1,
                         Xdeg  |-> [dec.Xdeg EXCEPT ![xpivot] = FLIP(1)],
                         Ydeg  |-> [G.Ydeg EXCEPT ![ypivot] = FLIP(G.Ydeg[ypivot])],
                         Xperm |-> [G.Xperm EXCEPT ![found] = xpivot],
                         Yperm |-> [G.Yperm EXCEPT ![found] = xpivot],
                         ok    |-> /\ dec.ok
                                   /\ found \in DOMAIN G.Xperm
                                   /\ found \in DOMAIN G.Yperm]

\* order_singletons_step with line 91 storing FLIP(1) for the partner as well.
order_singletons_step_flip_one(queue, found, G) ==
  LET xpivot == Head(queue)
      rest   == Tail(queue)
      same   == [queue |-> rest, found |-> found, Xdeg |-> G.Xdeg, Ydeg |-> G.Ydeg,
                 Xperm |-> G.Xperm, Yperm |-> G.Yperm, ok |-> TRUE]
  IN  IF G.Xdeg[xpivot] < 0 THEN [same EXCEPT !.ok = FALSE]
      ELSE IF G.Xdeg[xpivot] # 1 THEN [same EXCEPT !.ok = (G.Xdeg[xpivot] = 0)]
      ELSE LET ypivot == FindPivot(G, G.Xp[xpivot], G.Xp[xpivot + 1])
           IN  IF \/ LiveNeighbours(G, xpivot) # 1
                      \/ ypivot = kEmpty
                      \/ G.Ydeg[ypivot] < 0
               THEN [same EXCEPT !.ok = FALSE]
               ELSE LET dec == DecrementLoop(G, G.Yp[ypivot], G.Yp[ypivot + 1], xpivot,
                                             [Xdeg |-> G.Xdeg, queue |-> rest, ok |-> TRUE])
                    IN  [queue |-> dec.queue,
                         found |-> found + 1,
                         Xdeg  |-> [dec.Xdeg EXCEPT ![xpivot] = FLIP(1)],
                         Ydeg  |-> [G.Ydeg EXCEPT ![ypivot] = FLIP(1)],
                         Xperm |-> [G.Xperm EXCEPT ![found] = xpivot],
                         Yperm |-> [G.Yperm EXCEPT ![found] = ypivot],
                         ok    |-> /\ dec.ok
                                   /\ found \in DOMAIN G.Xperm
                                   /\ found \in DOMAIN G.Yperm]

\* One iteration of the while loop of order_singletons (lines 35-97).
\* The result carries ok = FALSE when an assertion fails (the program aborts).
order_singletons_step(queue, found, G) ==
  LET xpivot == Head(queue)
      rest   == Tail(queue)
      same   == [queue |-> rest, found |-> found, Xdeg |-> G.Xdeg, Ydeg |-> G.Ydeg,
                 Xperm |-> G.Xperm, Yperm |-> G.Yperm, ok |-> TRUE]
  IN  IF G.Xdeg[xpivot] < 0 THEN [same EXCEPT !.ok = FALSE]
      ELSE IF G.Xdeg[xpivot] # 1 THEN [same EXCEPT !.ok = (G.Xdeg[xpivot] = 0)]
      ELSE LET ypivot == FindPivot(G, G.Xp[xpivot], G.Xp[xpivot + 1])
           IN  IF \/ LiveNeighbours(G, xpivot) # 1
                      \/ ypivot = kEmpty
                      \/ G.Ydeg[ypivot] < 0
               THEN [same EXCEPT !.ok = FALSE]
               ELSE LET dec == DecrementLoop(G, G.Yp[ypivot], G.Yp[ypivot + 1], xpivot,
                                             [Xdeg |-> G.Xdeg, queue |-> rest, ok |-> TRUE])
                    IN  [queue |-> dec.queue,
                         found |-> found + 1,
                         Xdeg  |-> [dec.Xdeg EXCEPT ![xpivot] = FLIP(1)],
                         Ydeg  |-> [G.Ydeg EXCEPT ![ypivot] = FLIP(G.Ydeg[ypivot])],
                         Xperm |-> [G.Xperm EXCEPT ![found] = xpivot],
                         Yperm |-> [G.Yperm EXCEPT ![found] = ypivot],
                         ok    |-> /\ dec.ok
                                   /\ found \in DOMAIN G.Xperm
                                   /\ found \in DOMAIN G.Yperm]

\* ------------------------------------------------------ complete_permutation
\* CompleteLoop with line 155 indexing before the increment of num_empty.
RECURSIVE CompleteLoopOffByOne(_, _)
CompleteLoopOffByOne(n, st) ==
  IF st.k >= n THEN st
  ELSE LET k   == st.k
           deg == st.Xdeg[k]
       IN  IF deg = 0 THEN
             CompleteLoopOffByOne(n, [st EXCEPT !.k = k + 1,
                                                !.num_empty = st.num_empty + 1,
                                                !.Xperm[n - st.num_empty] = k])
           ELSE IF deg > 0 THEN
             CompleteLoopOffByOne(n, [st EXCEPT !.k = k + 1,
                                                !.ok = @ /\ st.start < n - st.num_empty,
                                                !.Xperm[st.start] = k,
                                                !.start = st.start + 1])
           ELSE
             CompleteLoopOffByOne(n, [st EXCEPT !.k = k + 1, !.Xdeg[k] = FLIP(deg)])

\* CompleteLoop with the branches of lines 151 and 155 exchanged: empty
\* entities go to the unresolved block and nonempty ones to the tail.
RECURSIVE CompleteLoopSwapped(_, _)
CompleteLoopSwapped(n, st) ==
  IF st.k >= n THEN st
  ELSE LET k   == st.k
           deg == st.Xdeg[k]
       IN  IF deg > 0 THEN
             CompleteLoopSwapped(n, [st EXCEPT !.k = k + 1,
                                               !.num_empty = st.num_empty + 1,
                                               !.Xperm[n - (st.num_empty + 1)] = k])
           ELSE IF deg = 0 THEN
             CompleteLoopSwapped(n, [st EXCEPT !.k = k + 1,
                                               !.ok = @ /\ st.start < n - st.num_empty,
                                               !.Xperm[st.start] = k,
                                               !.start = st.start + 1])
           ELSE
             CompleteLoopSwapped(n, [st EXCEPT !.k = k + 1, !.Xdeg[k] = FLIP(deg)])

\* Lines 150-164; st = [k, num_empty, start, Xdeg, Xperm, ok].
RECURSIVE CompleteLoop(_, _)
CompleteLoop(n, st) ==
  IF st.k >= n THEN st
  ELSE LET k   == st.k
           deg == st.Xdeg[k]
       IN  IF deg = 0 THEN
             CompleteLoop(n, [st EXCEPT !.k = k + 1,
                                        !.num_empty = st.num_empty + 1,
                                        !.Xperm[n - (st.num_empty + 1)] = k])
           ELSE IF deg > 0 THEN
             CompleteLoop(n, [st EXCEPT !.k = k + 1,
                                        !.ok = @ /\ st.start < n - st.num_empty,
                                        !.Xperm[st.start] = k,
                                        !.start = st.start + 1])
           ELSE
             CompleteLoop(n, [st EXCEPT !.k = k + 1, !.Xdeg[k] = FLIP(deg)])

complete_permutation(singletons, Xdeg, Xperm) ==
  LET n   == Cardinality(DOMAIN Xdeg)
      fin == CompleteLoop(n, [k |-> 0, num_empty |-> 0, start |-> singletons,
                              Xdeg |-> Xdeg, Xperm |-> Xperm,
                              ok |-> Cardinality(DOMAIN Xperm) = n])
  IN  [num_empty |-> fin.num_empty, Xdeg |-> fin.Xdeg, Xperm |-> fin.Xperm,
       start |-> fin.start,
       ok |-> fin.ok /\ fin.start = n - fin.num_empty]

\* ------------------------------------------------------------ find_singletons
\* The lists of n columns drawn from `columns` with at most nz entries in all.
RECURSIVE ColumnLists(_, _, _)
ColumnLists(columns, n, nz) ==
  IF n = 0 THEN {<<>>}
  ELSE UNION {{<<c>> \o rest : rest \in ColumnLists(columns, n - 1, nz - Len(c))} :
              c \in {s \in columns : Len(s) <= nz}}

\* The input matrices of one shape with at most MaxNnz entries, empty rows and
\* columns included; a column is a list of distinct row indices in any order.
MatricesOfShape(m, n) ==
  LET columns == DupFreeSeqs(0..(m - 1))
  IN  {CscMatrix(m, n, [j \in 0..(n - 1) |-> cols[j + 1]]) :
       cols \in ColumnLists(columns, n, MaxNnz)}

\* ColumnDegrees counting one entry too few.
ColumnDegreesShort(M) ==
  [j \in 0..(M.n - 1) |-> Max(0, M.col_start[j + 1] - M.col_start[j] - 1)]

\* Lines 192-195: the degree of a column is its number of entries.
ColumnDegrees(M) == [j \in 0..(M.n - 1) |-> M.col_start[j + 1] - M.col_start[j]]

\* SeedQueue with the loop test j > 0: index 0 is never looked at.
RECURSIVE SeedQueueSkipZero(_, _, _)
SeedQueueSkipZero(deg, j, queue) ==
  IF j <= 0 THEN queue
  ELSE SeedQueueSkipZero(deg, j - 1, IF deg[j] = 1 THEN Append(queue, j) ELSE queue)

\* SeedQueue with the new entity put at the front: the queue is seeded in
\* ascending index order.
RECURSIVE SeedQueueAtFront(_, _, _)
SeedQueueAtFront(deg, j, queue) ==
  IF j < 0 THEN queue
  ELSE SeedQueueAtFront(deg, j - 1, IF deg[j] = 1 THEN <<j>> \o queue ELSE queue)

\* Lines 202-205 and 237-240: push the entities of degree 1, last index first.
RECURSIVE SeedQueue(_, _, _)
SeedQueue(deg, j, queue) ==
  IF j < 0 THEN queue
  ELSE SeedQueue(deg, j - 1, IF deg[j] = 1 THEN Append(queue, j) ELSE queue)

\* The number of times x occurs in the sequence s.
Occurrences(s, x) == Cardinality({k \in 1..Len(s) : s[k] = x})

\* The pushes of a pass so far, after the queue went from `before` (already
\* popped once) to `after`.
CountPushes(count, before, after) ==
  LET new == SubSeq(after, Len(before) + 1, Len(after))
  IN  [x \in DOMAIN count |-> count[x] + Occurrences(new, x)]

FsInit ==
  /\ pc = "start"
  /\ \E m \in 0..MaxM, n \in 0..MaxN : A \in MatricesOfShape(m, n)
  /\ Cdeg = Vec(A.n, 0)
  /\ Rdeg = Vec(A.m, 0)
  /\ Rp = Vec(A.m + 1, 0)
  /\ Rj = Vec(A.col_start[A.n], 0)
  /\ row_form = FALSE
  /\ singleton_queue = <<>>
  /\ singletons_found = 0
  /\ last = 0
  /\ col_singletons = -1
  /\ row_singletons = -1
  /\ col_perm = Vec(A.n, -1)
  /\ row_perm = Vec(A.m, -1)
  /\ num_empty_cols = -1
  /\ num_empty_rows = -1
  /\ ret = -1
  /\ enq = Vec(Max(A.m, A.n), 0)
  /\ row_builds = 0

\* Lines 191-210: the degrees, the queue of column singletons.
ComputeDegrees ==
  /\ pc = "start"
  /\ LET cdeg == ColumnDegrees(A)
         q    == SeedQueue(cdeg, A.n - 1, singleton_queue)
     IN  /\ Cdeg' = cdeg
         /\ Rdeg' = RowCounts(A, 0, Rdeg)
         /\ singleton_queue' = q
         /\ enq' = CountPushes(Vec(Max(A.m, A.n), 0), <<>>, q)
  /\ row_form' = FALSE
  /\ singletons_found' = 0
  /\ col_singletons' = 0
  /\ pc' = "col_check"
  /\ UNCHANGED <<vmVars, wkVars, stVars, luVars, siVars, prVars, A, Rp, Rj, last, row_singletons, col_perm, row_perm,
                 num_empty_cols, num_empty_rows, ret, row_builds>>

\* Lines 211-214: the row representation is built when a column singleton exists.
BeginColPass ==
  /\ pc = "col_check"
  /\ singleton_queue # <<>>
  /\ LET r == create_row_representation(A, Rj)
     IN  /\ Rp' = r.row_start
         /\ Rj' = r.col_index
  /\ row_form' = TRUE
  /\ row_builds' = row_builds + 1
  /\ pc' = "col_pass"
  /\ UNCHANGED <<vmVars, wkVars, stVars, luVars, siVars, prVars, A, Cdeg, Rdeg, singleton_queue, singletons_found, last, col_singletons,
                 row_singletons, col_perm, row_perm, num_empty_cols, num_empty_rows,
                 ret, enq>>

\* Line 211, the queue is empty: no column pass.
SkipColPass ==
  /\ pc = "col_check"
  /\ singleton_queue = <<>>
  /\ pc' = "seed_rows"
  /\ UNCHANGED <<vmVars, wkVars, stVars, luVars, siVars, prVars, A, Cdeg, Rdeg, Rp, Rj, row_form, singleton_queue, singletons_found,
                 last, col_singletons, row_singletons, col_perm, row_perm,
                 num_empty_cols, num_empty_rows, ret, enq, row_builds>>

\* Lines 217-224: the graph of the column pass.
ColGraph ==
  [Xdeg |-> Cdeg, Xperm |-> col_perm, Xp |-> A.col_start, Xi |-> A.i,
   Ydeg |-> Rdeg, Yperm |-> row_perm, Yp |-> Rp, Yi |-> Rj]

\* Lines 251-258: the graph of the row pass.
RowGraph ==
  [Xdeg |-> Rdeg, Xperm |-> row_perm, Xp |-> Rp, Xi |-> Rj,
   Ydeg |-> Cdeg, Yperm |-> col_perm, Yp |-> A.col_start, Yi |-> A.i]

\* Line 230: one iteration of order_singletons on the column graph.
ColStep ==
  /\ pc = "col_pass"
  /\ singleton_queue # <<>>
  /\ LET r == order_singletons_step(singleton_queue, singletons_found, ColGraph)
     IN  /\ singleton_queue' = r.queue
         /\ singletons_found' = r.found
         /\ Cdeg' = r.Xdeg
         /\ Rdeg' = r.Ydeg
         /\ col_perm' = r.Xperm
         /\ row_perm' = r.Yperm
         /\ enq' = CountPushes(enq, Tail(singleton_queue), r.queue)
         /\ pc' = IF r.ok THEN "col_pass" ELSE "abort"
  /\ UNCHANGED <<vmVars, wkVars, stVars, luVars, siVars, prVars, A, Rp, Rj, row_form, last, col_singletons, row_singletons,
                 num_empty_cols, num_empty_rows, ret, row_builds>>

\* Line 230: order_singletons returns, the queue is drained.
EndColPass ==
  /\ pc = "col_pass"
  /\ singleton_queue = <<>>
  /\ col_singletons' = singletons_found
  /\ pc' = "seed_rows"
  /\ UNCHANGED <<vmVars, wkVars, stVars, luVars, siVars, prVars, A, Cdeg, Rdeg, Rp, Rj, row_form, singleton_queue, singletons_found,
                 last, row_singletons, col_perm, row_perm, num_empty_cols,
                 num_empty_rows, ret, enq, row_builds>>

\* Lines 237-243: the queue of row singletons.
SeedRows ==
  /\ pc = "seed_rows"
  /\ LET q == SeedQueue(Rdeg, A.m - 1, singleton_queue)
     IN  /\ singleton_queue' = q
         /\ enq' = CountPushes(Vec(Max(A.m, A.n), 0), <<>>, q)
  /\ row_singletons' = 0
  /\ pc' = "row_check"
  /\ UNCHANGED <<vmVars, wkVars, stVars, luVars, siVars, prVars, A, Cdeg, Rdeg, Rp, Rj, row_form, singletons_found, last,
                 col_singletons, col_perm, row_perm, num_empty_cols, num_empty_rows,
                 ret, row_builds>>

\* BeginRowPass without the test of line 245: the row representation is
\* built again although the column pass built it.
BeginRowPassRebuild ==
  /\ pc = "row_check"
  /\ singleton_queue # <<>>
  /\ LET r == create_row_representation(A, Rj)
     IN  /\ Rp' = r.row_start
         /\ Rj' = r.col_index
  /\ row_builds' = row_builds + 1
  /\ last' = singletons_found
  /\ pc' = "row_pass"
  /\ UNCHANGED <<vmVars, wkVars, stVars, luVars, siVars, prVars, A, Cdeg, Rdeg, row_form, singleton_queue, singletons_found,
                 col_singletons, row_singletons, col_perm, row_perm, num_empty_cols,
                 num_empty_rows, ret, enq>>

\* Lines 244-262: the row representation is built unless the column pass built it.
BeginRowPass ==
  /\ pc = "row_check"
  /\ singleton_queue # <<>>
  /\ LET r == create_row_representation(A, Rj)
     IN  /\ Rp' = IF row_form THEN Rp ELSE r.row_start
         /\ Rj' = IF row_form THEN Rj ELSE r.col_index
  /\ row_builds' = IF row_form THEN row_builds ELSE row_builds + 1
  /\ last' = singletons_found
  /\ pc' = "row_pass"
  /\ UNCHANGED <<vmVars, wkVars, stVars, luVars, siVars, prVars, A, Cdeg, Rdeg, row_form, singleton_queue, singletons_found,
                 col_singletons, row_singletons, col_perm, row_perm, num_empty_cols,
                 num_empty_rows, ret, enq>>

\* Line 268, the queue is empty: no row pass.
SkipRowPass ==
  /\ pc = "row_check"
  /\ singleton_queue = <<>>
  /\ pc' = "complete_cols"
  /\ UNCHANGED <<vmVars, wkVars, stVars, luVars, siVars, prVars, A, Cdeg, Rdeg, Rp, Rj, row_form, singleton_queue, singletons_found,
                 last, col_singletons, row_singletons, col_perm, row_perm,
                 num_empty_cols, num_empty_rows, ret, enq, row_builds>>

\* Line 263: one iteration of order_singletons on the row graph.
RowStep ==
  /\ pc = "row_pass"
  /\ singleton_queue # <<>>
  /\ LET r == order_singletons_step(singleton_queue, singletons_found, RowGraph)
     IN  /\ singleton_queue' = r.queue
         /\ singletons_found' = r.found
         /\ Rdeg' = r.Xdeg
         /\ Cdeg' = r.Ydeg
         /\ row_perm' = r.Xperm
         /\ col_perm' = r.Yperm
         /\ enq' = CountPushes(enq, Tail(singleton_queue), r.queue)
         /\ pc' = IF r.ok THEN "row_pass" ELSE "abort"
  /\ UNCHANGED <<vmVars, wkVars, stVars, luVars, siVars, prVars, A, Rp, Rj, row_form, last, col_singletons, row_singletons,
                 num_empty_cols, num_empty_rows, ret, row_builds>>

\* EndRowPass without line 264: the total is reported as the row count.
EndRowPassNoSubtract ==
  /\ pc = "row_pass"
  /\ singleton_queue = <<>>
  /\ row_singletons' = singletons_found
  /\ pc' = "complete_cols"
  /\ UNCHANGED <<vmVars, wkVars, stVars, luVars, siVars, prVars, A, Cdeg, Rdeg, Rp, Rj, row_form, singleton_queue, singletons_found,
                 last, col_singletons, col_perm, row_perm, num_empty_cols,
                 num_empty_rows, ret, enq, row_builds>>

\* Lines 263-264: order_singletons returns, the queue is drained.
EndRowPass ==
  /\ pc = "row_pass"
  /\ singleton_queue = <<>>
  /\ row_singletons' = singletons_found - last
  /\ pc' = "complete_cols"
  /\ UNCHANGED <<vmVars, wkVars, stVars, luVars, siVars, prVars, A, Cdeg, Rdeg, Rp, Rj, row_form, singleton_queue, singletons_found,
                 last, col_singletons, col_perm, row_perm, num_empty_cols,
                 num_empty_rows, ret, enq, row_builds>>

\* Line 277.
CompleteCols ==
  /\ pc = "complete_cols"
  /\ LET r == complete_permutation(singletons_found, Cdeg, col_perm)
     IN  /\ num_empty_cols' = r.num_empty
         /\ Cdeg' = r.Xdeg
         /\ col_perm' = r.Xperm
         /\ pc' = IF r.ok THEN "complete_rows" ELSE "abort"
  /\ UNCHANGED <<vmVars, wkVars, stVars, luVars, siVars, prVars, A, Rdeg, Rp, Rj, row_form, singleton_queue, singletons_found, last,
                 col_singletons, row_singletons, row_perm, num_empty_rows, ret, enq,
                 row_builds>>

\* Lines 282-287.
CompleteRows ==
  /\ pc = "complete_rows"
  /\ LET r == complete_permutation(singletons_found, Rdeg, row_perm)
     IN  /\ num_empty_rows' = r.num_empty
         /\ Rdeg' = r.Xdeg
         /\ row_perm' = r.Xperm
         /\ pc' = IF r.ok THEN "done" ELSE "abort"
         /\ ret' = IF r.ok THEN singletons_found ELSE ret
  /\ UNCHANGED <<vmVars, wkVars, stVars, luVars, siVars, prVars, A, Cdeg, Rp, Rj, row_form, singleton_queue, singletons_found, last,
                 col_singletons, row_singletons, col_perm, num_empty_cols, enq,
                 row_builds>>

find_singletons ==
  \/ ComputeDegrees
  \/ BeginColPass
  \/ SkipColPass
  \/ ColStep
  \/ EndColPass
  \/ SeedRows
  \/ BeginRowPass
  \/ SkipRowPass
  \/ RowStep
  \/ EndRowPass
  \/ CompleteCols
  \/ CompleteRows

\* ============================================================ vector_math.hpp
\* std::vector::resize(n): the leading elements are kept, new ones are 0.
Resize(v, n) == [k \in 0..(n - 1) |-> IF k \in DOMAIN v THEN v[k] ELSE 0]

Size(v) == Cardinality(DOMAIN v)

\* Lines 66-68: x[k] = b[p[k]], k ascending.
RECURSIVE PermuteLoop(_, _, _, _, _)
PermuteLoop(pp, bb, xx, k, n) ==
  IF k >= n THEN xx
  ELSE PermuteLoop(pp, bb, [xx EXCEPT ![k] = bb[pp[k]]], k + 1, n)

\* Lines 61-70. Computes x = P*b.
permute_vector(pp, bb, xx) == PermuteLoop(pp, bb, xx, 0, Size(pp))

\* inverse_permute_vector's loop storing x[k] = b[p[k]] as permute_vector does.
RECURSIVE InversePermuteLoopForward(_, _, _, _, _)
InversePermuteLoopForward(pp, bb, xx, k, n) ==
  IF k >= n THEN xx
  ELSE InversePermuteLoopForward(pp, bb, [xx EXCEPT ![k] = bb[pp[k]]], k + 1, n)

\* Lines 79-81: x[p[k]] = b[k], k ascending.
RECURSIVE InversePermuteLoop(_, _, _, _, _)
InversePermuteLoop(pp, bb, xx, k, n) ==
  IF k >= n THEN xx
  ELSE InversePermuteLoop(pp, bb, [xx EXCEPT ![pp[k]] = bb[k]], k + 1, n)

\* Lines 74-83. Computes x = P'*b.
inverse_permute_vector(pp, bb, xx) == InversePermuteLoop(pp, bb, xx, 0, Size(pp))

\* inverse_permutation's loop storing pinv[k] = p[k]: a copy, not the inverse.
RECURSIVE InversePermutationLoopCopy(_, _, _, _)
InversePermutationLoopCopy(pp, pi, k, n) ==
  IF k >= n THEN pi
  ELSE InversePermutationLoopCopy(pp, [pi EXCEPT ![k] = pp[k]], k + 1, n)

\* Lines 91-93: pinv[p[k]] = k, k ascending.
RECURSIVE InversePermutationLoop(_, _, _, _)
InversePermutationLoop(pp, pi, k, n) ==
  IF k >= n THEN pi
  ELSE InversePermutationLoop(pp, [pi EXCEPT ![pp[k]] = k], k + 1, n)

\* Lines 87-95. Computes pinv from p.
inverse_permutation(pp, pi) ==
  LET n == Size(pp)
  IN  InversePermutationLoop(pp, IF Size(pi) # n THEN Resize(pi, n) ELSE pi, 0, n)

\* The permutations of [0,n).
PermutationsOf(n) ==
  {f \in [0..(n - 1) -> 0..(n - 1)] : \A i, j \in 0..(n - 1) : f[i] = f[j] => i = j}

\* The vectors of any size up to MaxLen a caller may hand in as pinv.
OldVectors == UNION {[0..(k - 1) -> {-1, 0}] : k \in 0..MaxLen}

\* The helpers are not in use.
VmIdle ==
  /\ vm_pc = "idle"
  /\ vm_p = <<>> /\ vm_b = <<>> /\ vm_x = <<>> /\ vm_y = <<>>
  /\ pinv_in = <<>> /\ pinv = <<>>

\* A permutation p, a vector b of the same length, output vectors of that
\* length with old contents, and a pinv of any size.
VmInit ==
  /\ vm_pc = "start"
  /\ \E n \in 0..MaxLen :
       /\ vm_p \in PermutationsOf(n)
       /\ vm_b \in [0..(n - 1) -> 0..MaxValue]
       /\ vm_x = Vec(n, -1)
       /\ vm_y = Vec(n, -1)
  /\ pinv_in \in OldVectors
  /\ pinv = pinv_in

\* permute_vector(vm_p, vm_b, vm_x)
PermuteVector ==
  /\ vm_pc = "start"
  /\ Size(vm_x) = Size(vm_p) /\ Size(vm_b) = Size(vm_p)
  /\ vm_x' = permute_vector(vm_p, vm_b, vm_x)
  /\ vm_pc' = "permuted"
  /\ UNCHANGED <<fsVars, wkVars, stVars, luVars, siVars, prVars, vm_p, vm_b, vm_y, pinv_in, pinv>>

\* inverse_permute_vector(vm_p, vm_x, vm_y)
InversePermuteVector ==
  /\ vm_pc = "permuted"
  /\ Size(vm_y) = Size(vm_p) /\ Size(vm_x) = Size(vm_p)
  /\ vm_y' = inverse_permute_vector(vm_p, vm_x, vm_y)
  /\ vm_pc' = "restored"
  /\ UNCHANGED <<fsVars, wkVars, stVars, luVars, siVars, prVars, vm_p, vm_b, vm_x, pinv_in, pinv>>

\* inverse_permutation(vm_p, pinv)
InversePermutation ==
  /\ vm_pc = "restored"
  /\ pinv' = inverse_permutation(vm_p, pinv)
  /\ vm_pc' = "inverted"
  /\ UNCHANGED <<fsVars, wkVars, stVars, luVars, siVars, prVars, vm_p, vm_b, vm_x, vm_y, pinv_in>>

vector_math ==
  \/ PermuteVector
  \/ InversePermuteVector
  \/ InversePermutation

\* ============================================================= bnb_worker.hpp
Nodes == 1..NumNodes
Vars == 0..(NumVars - 1)

\* bnb_worker_type_t
EXPLORATION == "EXPLORATION"
DIVING == "DIVING"

\* mip_node_t: the node's lower bound and its branching decision, a bound
\* override of one variable relative to the root.
NodeRecords ==
  [lower_bound : 0..MaxBound, branch_var : Vars,
   branch_var_lower : 0..MaxBound, branch_var_upper : 0..MaxBound]

\* The tree gives node k the branching variable k mod NumVars; odd nodes are
\* up branches (the lower bound is raised to MaxBound), even nodes are down
\* branches (the upper bound is lowered to 0).
TreeNode(k, lb) ==
  [lower_bound |-> lb, branch_var |-> k % NumVars,
   branch_var_lower |-> IF k % 2 = 1 THEN MaxBound ELSE 0,
   branch_var_upper |-> IF k % 2 = 1 THEN MaxBound ELSE 0]

\* NodeLower adding the node's override to the bound instead of replacing a
\* weaker bound by it.
NodeLowerShift(node, lp) ==
  [lp.lower EXCEPT ![node.branch_var] = @ + node.branch_var_lower]

\* The bounds of a node: the root's with the node's override applied.
NodeLower(node, lp) ==
  [lp.lower EXCEPT ![node.branch_var] = Max(@, node.branch_var_lower)]
NodeUpper(node, lp) ==
  [lp.upper EXCEPT ![node.branch_var] =
     IF @ <= node.branch_var_upper THEN @ ELSE node.branch_var_upper]

\* Pointers to mip_node_t: 0 is nullptr, a node id the shared node, and
\* InternalPtr is &internal_node (line 87).
InternalPtr == NumNodes + 1

\* The node a mip_node_t* points to.
Deref(ptr) == IF ptr = InternalPtr THEN internal_node ELSE nodes[ptr]

\* The fields of bnb_worker_t that init_best_first and init_diving write
\* (lines 32-34, 45-47).
WorkerFields ==
  [worker_type |-> worker_type, is_active |-> is_active, lower_bound |-> lower_bound,
   start_lower |-> start_lower, start_upper |-> start_upper, start_node |-> start_node]

\* No worker exists.
WkIdle ==
  /\ w_pc = "none"
  /\ nodes = <<>> /\ original_lp = <<>> /\ arg_node = 0
  /\ worker_type = EXPLORATION /\ is_active = FALSE /\ lower_bound = 0
  /\ start_lower = <<>> /\ start_upper = <<>> /\ start_node = 0
  /\ internal_node = <<>>
  /\ at_call = <<>>
  /\ leaf_problem = <<>> /\ basis_factors = 0
  /\ basic_list = <<>> /\ nonbasic_list = <<>>
  /\ recompute_basis = TRUE /\ recompute_bounds = TRUE
  /\ dv_ret = FALSE /\ lp_ret = FALSE
  /\ lp_fresh = "no"
  /\ rd_seen = <<>>
  /\ rd_order = <<>>

\* A worker after construction, not assigned a node: inactive, no start node
\* (0 is nullptr), lower bound -infinity (-1 here), empty bound snapshots.
WkInit ==
  /\ w_pc = "idle"
  /\ \E lb \in [Nodes -> 0..MaxBound] : nodes = [k \in Nodes |-> TreeNode(k, lb[k])]
  /\ \E up \in [Vars -> 0..MaxBound] :
       original_lp = [lower |-> [j \in Vars |-> 0], upper |-> up]
  /\ arg_node = 0
  /\ worker_type = EXPLORATION
  /\ is_active = FALSE
  /\ lower_bound = -1
  /\ start_lower = <<>>
  /\ start_upper = <<>>
  /\ start_node = 0
  /\ internal_node = TreeNode(0, 0)
  /\ at_call = WorkerFields
  /\ leaf_problem = original_lp
  /\ basis_factors = 0
  /\ basic_list = [i \in 0..(NumRows - 1) |-> NumVars - NumRows + i]
  /\ nonbasic_list = [i \in 0..(NumVars - NumRows - 1) |-> i]
  /\ recompute_basis = TRUE
  /\ recompute_bounds = TRUE
  /\ dv_ret = FALSE
  /\ lp_ret = FALSE
  /\ lp_fresh = "no"
  /\ rd_seen = <<>>
  /\ rd_order = <<>>

\* The worker's thread is between two calls.
BetweenCalls == w_pc \in {"idle", "bf_returned", "dv_returned"}

\* The scheduler calls init_best_first(node, original_lp) (line 59).
CallInitBestFirst ==
  /\ BetweenCalls
  /\ \E node \in Nodes : arg_node' = node
  /\ at_call' = WorkerFields
  /\ lp_fresh' = "no"
  /\ rd_seen' = <<>>
  /\ rd_order' = <<>>
  /\ w_pc' = "bf_start_node"
  /\ UNCHANGED <<fsVars, vmVars, stVars, luVars, siVars, prVars, wpState, dv_ret, lp_ret,
                 nodes, original_lp, worker_type, is_active,
                 lower_bound, start_lower, start_upper, start_node, internal_node>>

\* Line 61: start_node = node
BF_StartNode ==
  /\ w_pc = "bf_start_node"
  /\ start_node' = arg_node
  /\ w_pc' = "bf_start_lower"
  /\ UNCHANGED <<fsVars, vmVars, stVars, luVars, siVars, prVars, wpVars, rdVars, nodes, original_lp, arg_node, worker_type, is_active,
                 lower_bound, start_lower, start_upper, internal_node, at_call>>

\* Line 62: start_lower = original_lp.lower
BF_StartLower ==
  /\ w_pc = "bf_start_lower"
  /\ start_lower' = original_lp.lower
  /\ w_pc' = "bf_start_upper"
  /\ UNCHANGED <<fsVars, vmVars, stVars, luVars, siVars, prVars, wpVars, rdVars, nodes, original_lp, arg_node, worker_type, is_active,
                 lower_bound, start_upper, start_node, internal_node, at_call>>

\* Line 63: start_upper = original_lp.upper
BF_StartUpper ==
  /\ w_pc = "bf_start_upper"
  /\ start_upper' = original_lp.upper
  /\ w_pc' = "bf_worker_type"
  /\ UNCHANGED <<fsVars, vmVars, stVars, luVars, siVars, prVars, wpVars, rdVars, nodes, original_lp, arg_node, worker_type, is_active,
                 lower_bound, start_lower, start_node, internal_node, at_call>>

\* BF_WorkerType without the store of line 64: the type of the previous
\* assignment stays.
BF_WorkerTypeKept ==
  /\ w_pc = "bf_worker_type"
  /\ worker_type' = worker_type
  /\ w_pc' = "bf_lower_bound"
  /\ UNCHANGED <<fsVars, vmVars, stVars, luVars, siVars, prVars, wpVars, rdVars, nodes, original_lp, arg_node, is_active,
                 lower_bound, start_lower, start_upper, start_node, internal_node, at_call>>

\* BF_WorkerType with the store of line 66 moved up to line 64: is_active is
\* published before lower_bound.
BF_WorkerTypeActivates ==
  /\ w_pc = "bf_worker_type"
  /\ worker_type' = EXPLORATION
  /\ is_active' = TRUE
  /\ w_pc' = "bf_lower_bound"
  /\ UNCHANGED <<fsVars, vmVars, stVars, luVars, siVars, prVars, wpVars, rdVars, nodes, original_lp, arg_node,
                 lower_bound, start_lower, start_upper, start_node, internal_node, at_call>>

\* Line 64: worker_type = EXPLORATION (atomic store)
BF_WorkerType ==
  /\ w_pc = "bf_worker_type"
  /\ worker_type' = EXPLORATION
  /\ w_pc' = "bf_lower_bound"
  /\ UNCHANGED <<fsVars, vmVars, stVars, luVars, siVars, prVars, wpVars, rdVars, nodes, original_lp, arg_node, is_active,
                 lower_bound, start_lower, start_upper, start_node, internal_node, at_call>>

\* BF_LowerBound with the assignment of line 65 turned around: the worker's
\* bound is written into the shared node.
BF_LowerBoundReversed ==
  /\ w_pc = "bf_lower_bound"
  /\ nodes' = [nodes EXCEPT ![arg_node].lower_bound = lower_bound]
  /\ w_pc' = "bf_is_active"
  /\ UNCHANGED <<fsVars, vmVars, stVars, luVars, siVars, prVars, wpVars, rdVars, original_lp, arg_node,
                 worker_type, is_active, lower_bound, start_lower, start_upper, start_node,
                 internal_node, at_call>>

\* BF_LowerBound storing the constructor's -infinity instead of the node's
\* lower bound.
BF_LowerBoundCleared ==
  /\ w_pc = "bf_lower_bound"
  /\ lower_bound' = -1
  /\ w_pc' = "bf_is_active"
  /\ UNCHANGED <<fsVars, vmVars, stVars, luVars, siVars, prVars, wpVars, rdVars, nodes, original_lp,
                 arg_node, worker_type, is_active, start_lower, start_upper, start_node,
                 internal_node, at_call>>

\* Line 65: lower_bound = node->lower_bound (atomic store)
BF_LowerBound ==
  /\ w_pc = "bf_lower_bound"
  /\ lower_bound' = Deref(arg_node).lower_bound
  /\ w_pc' = "bf_is_active"
  /\ UNCHANGED <<fsVars, vmVars, stVars, luVars, siVars, prVars, wpVars, rdVars, nodes, original_lp, arg_node, worker_type, is_active,
                 start_lower, start_upper, start_node, internal_node, at_call>>

\* Line 66: is_active = true (atomic store), then the call returns.
BF_IsActive ==
  /\ w_pc = "bf_is_active"
  /\ is_active' = TRUE
  /\ w_pc' = "bf_returned"
  /\ UNCHANGED <<fsVars, vmVars, stVars, luVars, siVars, prVars, wpVars, rdVars, nodes, original_lp, arg_node, worker_type,
                 lower_bound, start_lower, start_upper, start_node, internal_node, at_call>>

\* The bounds leave every variable a value: no lower bound above its upper.
Feasible(lo, up) == \A j \in Vars : lo[j] <= up[j]

\* init_diving that dives on the shared node itself: start_node keeps the
\* caller's pointer instead of pointing to the private copy.
InitDivingAliased ==
  /\ BetweenCalls
  /\ \E node \in Nodes :
       LET lo == NodeLower(nodes[node], original_lp)
           up == NodeUpper(nodes[node], original_lp)
       IN  /\ arg_node' = node
           /\ internal_node' = nodes[node]
           /\ start_node' = node
           /\ start_lower' = lo
           /\ start_upper' = up
           /\ dv_ret' = Feasible(lo, up)
           /\ IF Feasible(lo, up)
                THEN /\ worker_type' = DIVING
                     /\ lower_bound' = nodes[node].lower_bound
                     /\ is_active' = TRUE
                ELSE UNCHANGED <<worker_type, lower_bound, is_active>>
  /\ w_pc' = "dv_returned"
  /\ at_call' = WorkerFields
  /\ lp_fresh' = "no"
  /\ rd_seen' = <<>>
  /\ rd_order' = <<>>
  /\ UNCHANGED <<fsVars, vmVars, stVars, luVars, siVars, prVars, wpState, lp_ret, nodes, original_lp>>

\* init_diving(node, type, original_lp, settings) (lines 72-75, 81-87): the
\* node is copied into internal_node and start_node points to the copy; the
\* snapshot is the copy's bounds, the root's with the node's overrides. When
\* they leave some variable no value the call returns false and the worker is
\* not armed; otherwise it returns true with the worker diving and active.
InitDiving ==
  /\ BetweenCalls
  /\ \E node \in Nodes :
       LET lo == NodeLower(nodes[node], original_lp)
           up == NodeUpper(nodes[node], original_lp)
       IN  /\ arg_node' = node
           /\ internal_node' = nodes[node]
           /\ start_node' = InternalPtr
           /\ start_lower' = lo
           /\ start_upper' = up
           /\ dv_ret' = Feasible(lo, up)
           /\ IF Feasible(lo, up)
                THEN /\ worker_type' = DIVING
                     /\ lower_bound' = nodes[node].lower_bound
                     /\ is_active' = TRUE
                ELSE UNCHANGED <<worker_type, lower_bound, is_active>>
  /\ w_pc' = "dv_returned"
  /\ at_call' = WorkerFields
  /\ lp_fresh' = "no"
  /\ rd_seen' = <<>>
  /\ rd_order' = <<>>
  /\ UNCHANGED <<fsVars, vmVars, stVars, luVars, siVars, prVars, wpState, lp_ret, nodes, original_lp>>

\* The worker holds a node and is solving it.
Armed ==
  /\ w_pc \in {"bf_returned", "dv_returned"}
  /\ is_active
  /\ w_pc = "dv_returned" => dv_ret

\* The diving worker moves down its path: it rewrites the node start_node
\* points to (another lower bound, another branching variable). Its cached
\* bounds are stale from then on.
DiveMutate ==
  /\ Armed
  /\ worker_type = DIVING
  /\ \E lb \in 0..MaxBound, v \in Vars :
       LET new == [Deref(start_node) EXCEPT !.lower_bound = lb, !.branch_var = v]
       IN  /\ new # Deref(start_node)
           /\ IF start_node = InternalPtr
                THEN /\ internal_node' = new
                     /\ nodes' = nodes
                ELSE /\ nodes' = [nodes EXCEPT ![start_node] = new]
                     /\ internal_node' = internal_node
  /\ recompute_bounds' = TRUE
  /\ lp_fresh' = "no"
  /\ UNCHANGED <<fsVars, vmVars, stVars, luVars, siVars, prVars, rdVars, w_pc, original_lp, arg_node,
                 worker_type, is_active, lower_bound, start_lower, start_upper, start_node,
                 at_call, leaf_problem, basis_factors, basic_list, nonbasic_list,
                 recompute_basis, dv_ret, lp_ret>>

\* set_lp_variable_bounds_for(node_ptr, settings) (lines 78-79), called with
\* the worker's start node: the node's overrides are applied to the root's
\* bounds when the cached bounds are stale (recompute_bounds), else on top of
\* the leaf problem's bounds; the verdict is the presolver's.
SetLpVariableBoundsFor ==
  /\ Armed
  /\ LET node == Deref(start_node)
         base == IF recompute_bounds THEN original_lp ELSE leaf_problem
         lo == NodeLower(node, base)
         up == NodeUpper(node, base)
     IN  /\ leaf_problem' = [lower |-> lo, upper |-> up]
         /\ lp_ret' = Feasible(lo, up)
  /\ recompute_bounds' = FALSE
  /\ lp_fresh' = (IF lp_fresh \in {"basis", "again"} THEN "again" ELSE "set")
  /\ UNCHANGED <<fsVars, vmVars, stVars, luVars, siVars, prVars, rdVars, w_pc, nodes, original_lp,
                 arg_node, worker_type, is_active, lower_bound, start_lower, start_upper,
                 start_node, internal_node, at_call, basis_factors, basic_list,
                 nonbasic_list, recompute_basis, dv_ret>>

\* A basis update that enters the column in basic_list and forgets to put the
\* leaving column into nonbasic_list.
BasisUpdateOneSided ==
  /\ Armed
  /\ ~recompute_basis
  /\ basis_factors < MaxUpdates
  /\ \E i \in DOMAIN basic_list, j \in DOMAIN nonbasic_list :
       /\ basic_list' = [basic_list EXCEPT ![i] = nonbasic_list[j]]
       /\ nonbasic_list' = nonbasic_list
  /\ basis_factors' = basis_factors + 1
  /\ recompute_basis' = (basis_factors + 1 >= MaxUpdates)
  /\ lp_fresh' = (IF lp_fresh = "no" THEN "no" ELSE "basis")
  /\ UNCHANGED <<fsVars, vmVars, stVars, luVars, siVars, prVars, rdVars, w_pc, nodes, original_lp,
                 arg_node, worker_type, is_active, lower_bound, start_lower, start_upper,
                 start_node, internal_node, at_call, leaf_problem, recompute_bounds,
                 dv_ret, lp_ret>>

\* A simplex pivot (lines 38-40): one basic column is swapped with one
\* nonbasic column and the factorization is updated in place; after
\* MaxUpdates updates the worker asks for a new factorization.
BasisUpdate ==
  /\ Armed
  /\ ~recompute_basis
  /\ basis_factors < MaxUpdates
  /\ \E i \in DOMAIN basic_list, j \in DOMAIN nonbasic_list :
       /\ basic_list' = [basic_list EXCEPT ![i] = nonbasic_list[j]]
       /\ nonbasic_list' = [nonbasic_list EXCEPT ![j] = basic_list[i]]
  /\ basis_factors' = basis_factors + 1
  /\ recompute_basis' = (basis_factors + 1 >= MaxUpdates)
  /\ lp_fresh' = (IF lp_fresh = "no" THEN "no" ELSE "basis")
  /\ UNCHANGED <<fsVars, vmVars, stVars, luVars, siVars, prVars, rdVars, w_pc, nodes, original_lp,
                 arg_node, worker_type, is_active, lower_bound, start_lower, start_upper,
                 start_node, internal_node, at_call, leaf_problem, recompute_bounds,
                 dv_ret, lp_ret>>

\* The full factorization of the basis (line 49): on first use and whenever
\* recompute_basis asks for it.
Refactor ==
  /\ Armed
  /\ recompute_basis
  /\ basis_factors' = 0
  /\ recompute_basis' = FALSE
  /\ lp_fresh' = (IF lp_fresh = "no" THEN "no" ELSE "basis")
  /\ UNCHANGED <<fsVars, vmVars, stVars, luVars, siVars, prVars, rdVars, w_pc, nodes, original_lp,
                 arg_node, worker_type, is_active, lower_bound, start_lower, start_upper,
                 start_node, internal_node, at_call, leaf_problem, basic_list,
                 nonbasic_list, recompute_bounds, dv_ret, lp_ret>>

\* The worker completes its assignment and is inactive again.
Finish ==
  /\ w_pc \in {"bf_returned", "dv_returned"}
  /\ is_active' = FALSE
  /\ lp_fresh' = "no"
  /\ rd_seen' = <<>>
  /\ rd_order' = <<>>
  /\ w_pc' = "idle"
  /\ UNCHANGED <<fsVars, vmVars, stVars, luVars, siVars, prVars, wpState, dv_ret, lp_ret, nodes, original_lp, arg_node, worker_type,
                 lower_bound, start_lower, start_upper, start_node, internal_node, at_call>>

init_best_first ==
  \/ BF_StartNode
  \/ BF_StartLower
  \/ BF_StartUpper
  \/ BF_WorkerType
  \/ BF_LowerBound
  \/ BF_IsActive

\* The fields the owning worker publishes (lines 32-34).
Fields == {"worker_type", "is_active", "lower_bound"}

\* An atomic read of one published field.
Published(f) ==
  CASE f = "worker_type" -> worker_type
    [] f = "is_active" -> is_active
    [] f = "lower_bound" -> lower_bound

\* The worker's thread is inside init_best_first: called and not yet back at
\* other work (lines 59-67).
InCall ==
  w_pc \in {"bf_start_node", "bf_start_lower", "bf_start_upper", "bf_worker_type",
            "bf_lower_bound", "bf_is_active", "bf_returned"}

\* A reader on another thread (the scheduler) reads, during a call of
\* init_best_first, one published field it has not read yet; the three reads
\* of a snapshot come in any order and at any moments of the call.
ReadField ==
  /\ InCall
  /\ \E f \in Fields \ DOMAIN rd_seen :
       /\ rd_seen' = [g \in DOMAIN rd_seen \cup {f} |->
                        IF g = f THEN Published(f) ELSE rd_seen[g]]
       /\ rd_order' = Append(rd_order, f)
  /\ UNCHANGED <<fsVars, vmVars, stVars, luVars, siVars, prVars, wpVars, w_pc, nodes, original_lp,
                 arg_node, worker_type, is_active, lower_bound, start_lower, start_upper,
                 start_node, internal_node, at_call>>

\* The reader is done with its snapshot and takes another.
NewSnapshot ==
  /\ DOMAIN rd_seen = Fields
  /\ rd_seen' = <<>>
  /\ rd_order' = <<>>
  /\ UNCHANGED <<fsVars, vmVars, stVars, luVars, siVars, prVars, wpVars, w_pc, nodes, original_lp,
                 arg_node, worker_type, is_active, lower_bound, start_lower, start_upper,
                 start_node, internal_node, at_call>>

\* The worker is assigned nodes and dives.
bnb_worker ==
  \/ CallInitBestFirst
  \/ init_best_first
  \/ InitDiving
  \/ Finish
  \/ DiveMutate

\* The worker is assigned nodes while a reader samples its published fields.
bnb_published ==
  \/ CallInitBestFirst
  \/ init_best_first
  \/ InitDiving
  \/ Finish
  \/ ReadField
  \/ NewSnapshot

\* The worker is assigned nodes and solves them.
bnb_solve ==
  \/ bnb_worker
  \/ SetLpVariableBoundsFor
  \/ BasisUpdate
  \/ Refactor

\* ================================================================ bnb_stats_t
Workers == 1..NumWorkers

\* The shared counters of bnb_stats_t (lines 22-25).
Counters == {"total_lp_solve_time", "nodes_explored", "nodes_unexplored", "total_lp_iters"}

\* The counters at solve start (the initializers of lines 22-25).
StatsReset == [c \in Counters |-> 0]

\* No solve is running.
StIdle ==
  /\ st_pc = "none"
  /\ stats = <<>>
  /\ st_reg = <<>>
  /\ st_ops = 0
  /\ st_contrib = <<>>

\* Solve start: the counters are reset, no worker has reported.
StInit ==
  /\ st_pc = "running"
  /\ stats = StatsReset
  /\ st_reg = [w \in Workers |-> <<>>]
  /\ st_ops = 0
  /\ st_contrib = [w \in Workers |-> [c \in Counters |-> 0]]

\* An increment done as a plain store of an earlier load plus d: the value
\* worker w loaded from the counter, when it loaded one, else the current one.
StaleAdd(current, loaded, c, d) ==
  IF loaded # <<>> /\ loaded.counter = c THEN loaded.value + d ELSE current + d

\* omp_atomic_t's += (lines 22-25): the counter's current value plus d, read
\* and written in one atomic step.
FetchAdd(current, loaded, c, d) == current + d

\* Worker w samples counter c (an atomic load).
StatLoad(w, c) ==
  /\ st_pc = "running"
  /\ st_ops < MaxOps
  /\ st_reg' = [st_reg EXCEPT ![w] = [counter |-> c, value |-> stats[c]]]
  /\ st_ops' = st_ops + 1
  /\ UNCHANGED <<fsVars, vmVars, wkVars, luVars, siVars, prVars, st_pc, stats, st_contrib>>

\* Worker w adds d to counter c.
StatAdd(w, c, d) ==
  /\ st_pc = "running"
  /\ st_ops < MaxOps
  /\ stats' = [stats EXCEPT ![c] = FetchAdd(stats[c], st_reg[w], c, d)]
  /\ st_contrib' = [st_contrib EXCEPT ![w][c] = @ + d]
  /\ st_ops' = st_ops + 1
  /\ UNCHANGED <<fsVars, vmVars, wkVars, luVars, siVars, prVars, st_pc, st_reg>>

\* All workers have finished: the solve is complete.
StatFinish ==
  /\ st_pc = "running"
  /\ st_pc' = "finished"
  /\ UNCHANGED <<fsVars, vmVars, wkVars, luVars, siVars, prVars, stats, st_reg, st_ops, st_contrib>>

bnb_stats ==
  \/ \E w \in Workers, c \in Counters : StatLoad(w, c)
  \/ \E w \in Workers, c \in Counters, d \in 1..MaxDelta : StatAdd(w, c, d)
  \/ StatFinish

\* ========================================================== right_looking_lu.hpp
\* f_t is modelled exactly: a number is a fraction <<numerator, denominator>>
\* in lowest terms with a positive denominator.
Abs(i) == IF i < 0 THEN -i ELSE i

RECURSIVE Gcd(_, _)
Gcd(a, b) == IF b = 0 THEN a ELSE Gcd(b, a % b)

Norm(n, d) ==
  LET g == Gcd(Abs(n), Abs(d))
      sgn == IF d < 0 THEN -1 ELSE 1
  IN  <<(sgn * n) \div g, (sgn * d) \div g>>

Rat(i) == <<i, 1>>
RAdd(x, y) == Norm(x[1] * y[2] + y[1] * x[2], x[2] * y[2])
RSub(x, y) == Norm(x[1] * y[2] - y[1] * x[2], x[2] * y[2])
RMul(x, y) == Norm(x[1] * y[1], x[2] * y[2])
RDiv(x, y) == Norm(x[1] * y[2], x[2] * y[1])
RAbs(x) == <<Abs(x[1]), x[2]>>
RGt(x, y) == x[1] * y[2] > y[1] * x[2]

\* The indices of an n x n matrix.
Idx(n) == 0..(n - 1)

\* The n x n matrix of zeros.
ZeroMatrix(n) == [e \in Idx(n) \X Idx(n) |-> Rat(0)]

\* The dimension of the matrix being factored.
LuDim == Cardinality(DOMAIN column_list)

\* The rows that have no pivot yet.
FreeRows(pinv_) == {r \in DOMAIN pinv_ : pinv_[r] = -1}

\* Candidates that accepts every nonzero entry: the comparison is made with
\* zero instead of tol.
CandidatesNonzero(S, pinv_, c, tol) ==
  {r \in FreeRows(pinv_) : S[<<r, c>>] # Rat(0)}

\* The candidate pivot rows of column c: the rows without a pivot whose entry
\* exceeds tol in absolute value.
Candidates(S, pinv_, c, tol) ==
  {r \in FreeRows(pinv_) : RGt(RAbs(S[<<r, c>>]), tol)}

\* Partial pivoting: a candidate of largest magnitude, or the diagonal
\* candidate when it is within tol of the largest magnitude.
Admissible(S, pinv_, c, tol) ==
  LET cand == Candidates(S, pinv_, c, tol)
      IsMax(r) == \A t \in cand : ~RGt(RAbs(S[<<t, c>>]), RAbs(S[<<r, c>>]))
  IN  {r \in cand :
         \/ IsMax(r)
         \/ /\ r = c
            /\ \A t \in cand : ~RGt(RSub(RAbs(S[<<t, c>>]), RAbs(S[<<r, c>>])), tol)}

\* The elimination step that adds the multiple of the pivot row instead of
\* subtracting it.
EliminateAdding(S, pinv_, q_, r, c) ==
  [e \in DOMAIN S |->
     IF e[1] # r /\ pinv_[e[1]] = -1 /\ e[2] # c /\ e[2] \notin Range(q_)
       THEN RAdd(S[e], RMul(RDiv(S[<<e[1], c>>], S[<<r, c>>]), S[<<r, e[2]>>]))
       ELSE S[e]]

\* The right-looking update with pivot (r, c): the multiple of the pivot row
\* is subtracted from every other row without a pivot, in every column not
\* yet visited.
Eliminate(S, pinv_, q_, r, c) ==
  [e \in DOMAIN S |->
     IF e[1] # r /\ pinv_[e[1]] = -1 /\ e[2] # c /\ e[2] \notin Range(q_)
       THEN RSub(S[e], RMul(RDiv(S[<<e[1], c>>], S[<<r, c>>]), S[<<r, e[2]>>]))
       ELSE S[e]]

\* The matrices right_looking_lu may be handed: n x n, entries 0..LuMaxAbs, at
\* most LuMaxNnz of them nonzero.
LuMatrices(n) ==
  {M \in [Idx(n) \X Idx(n) -> 0..LuMaxAbs] :
     Cardinality({e \in Idx(n) \X Idx(n) : M[e] # 0}) <= LuMaxNnz}

\* The column orders tried: ascending and descending.
ColumnOrders(n) == {[k \in Idx(n) |-> k], [k \in Idx(n) |-> n - 1 - k]}

\* The tolerances tried.
Tolerances == {Rat(0), Rat(1)}

\* No factorization is running.
LuIdle ==
  /\ lu_pc = "none"
  /\ lu_A = <<>> /\ lu_tol = Rat(0) /\ column_list = <<>> /\ lu_k = 0
  /\ lu_S = <<>> /\ lu_L = <<>> /\ lu_U = <<>> /\ lu_q = <<>> /\ lu_pinv = <<>>
  /\ lu_ret = -1

\* Entry of right_looking_lu(A, settings, tol, column_list, q, L, U, pinv).
LuInit ==
  /\ lu_pc = "factor"
  /\ \E n \in 1..LuN :
       /\ lu_A \in LuMatrices(n)
       /\ column_list \in ColumnOrders(n)
       /\ lu_L = ZeroMatrix(n)
       /\ lu_U = ZeroMatrix(n)
       /\ lu_q = Vec(n, -1)
       /\ lu_pinv = Vec(n, -1)
  /\ lu_S = [e \in DOMAIN lu_A |-> Rat(lu_A[e])]
  /\ lu_tol \in Tolerances
  /\ lu_k = 0
  /\ lu_ret = -1

\* Column column_list[k] has an admissible pivot: row r gets pivot k, the
\* column enters q, column k of L and row k of U are stored and the rest of
\* the matrix is updated at once.
LuPivot ==
  /\ lu_pc = "factor"
  /\ lu_k < LuDim
  /\ LET c == column_list[lu_k]
     IN  \E r \in Admissible(lu_S, lu_pinv, c, lu_tol) :
           /\ lu_pinv' = [lu_pinv EXCEPT ![r] = lu_k]
           /\ lu_q' = [lu_q EXCEPT ![lu_k] = c]
           /\ lu_L' = [e \in DOMAIN lu_L |->
                         IF e[2] # lu_k THEN lu_L[e]
                         ELSE IF e[1] = r THEN Rat(1)
                         ELSE IF lu_pinv[e[1]] = -1
                                THEN RDiv(lu_S[<<e[1], c>>], lu_S[<<r, c>>])
                                ELSE Rat(0)]
           /\ lu_U' = [e \in DOMAIN lu_U |->
                         IF e[1] # lu_k THEN lu_U[e]
                         ELSE IF e[2] = c \/ e[2] \notin Range(lu_q)
                                THEN lu_S[<<r, e[2]>>]
                                ELSE Rat(0)]
           /\ lu_S' = Eliminate(lu_S, lu_pinv, lu_q, r, c)
  /\ lu_k' = lu_k + 1
  /\ UNCHANGED <<fsVars, vmVars, wkVars, stVars, siVars, prVars, lu_pc, lu_A, lu_tol, column_list,
                 lu_ret>>

\* No candidate of column column_list[k] exceeds tol: the column is rejected
\* as numerically singular and its index in the visitation order is returned.
LuSingular ==
  /\ lu_pc = "factor"
  /\ lu_k < LuDim
  /\ Candidates(lu_S, lu_pinv, column_list[lu_k], lu_tol) = {}
  /\ lu_ret' = lu_k
  /\ lu_pc' = "done"
  /\ UNCHANGED <<fsVars, vmVars, wkVars, stVars, siVars, prVars, lu_A, lu_tol, column_list, lu_k,
                 lu_S, lu_L, lu_U, lu_q, lu_pinv>>

\* Every column was pivoted: the number of pivots, n, is returned.
LuReturn ==
  /\ lu_pc = "factor"
  /\ lu_k = LuDim
  /\ lu_ret' = lu_k
  /\ lu_pc' = "done"
  /\ UNCHANGED <<fsVars, vmVars, wkVars, stVars, siVars, prVars, lu_A, lu_tol, column_list, lu_k,
                 lu_S, lu_L, lu_U, lu_q, lu_pinv>>

right_looking_lu ==
  \/ LuPivot
  \/ LuSingular
  \/ LuReturn

\* ================================= optimization_problem_solution_interface.hpp
\* The accessors of the base interface that both solution types answer
\* (lines 53, 97-132).
Accessors ==
  {"is_mip", "get_objective_value", "get_mip_gap", "get_solution_bound",
   "get_dual_solution", "get_dual_objective_value", "get_reduced_costs"}

\* A call that returns v; a call that throws std::logic_error.
Value(v) == [threw |-> FALSE, value |-> v]
LogicError == [threw |-> TRUE, value |-> "std::logic_error"]

\* The host vectors and the per-id values a concrete solution may hold.
HostVectors == [0..0 -> 0..SiMaxValue]
PerId == [0..1 -> 0..SiMaxValue]

\* The concrete LP solutions: what the pure virtual LP accessors of lines
\* 229-253 return.
LpSolutions ==
  [type : {"LP"}, objective_value : PerId, dual_objective_value : PerId,
   dual_solution_host : HostVectors, reduced_cost_host : HostVectors]

\* The concrete MIP solutions: what the pure virtual MIP accessors of lines
\* 414-432 return.
MipSolutions ==
  [type : {"MIP"}, objective_value : 0..SiMaxValue, mip_gap : 0..SiMaxValue,
   solution_bound : 0..SiMaxValue]

\* An LP interface whose MIP-only accessors answer with a default value
\* instead of throwing.
lp_solution_interface_defaulting(sol, f) ==
  CASE f = "is_mip" -> Value(FALSE)
    [] f = "get_objective_value" -> Value(sol.objective_value[0])
    [] f = "get_mip_gap" -> Value(0)
    [] f = "get_solution_bound" -> Value(0)
    [] f = "get_dual_solution" -> Value(sol.dual_solution_host)
    [] f = "get_dual_objective_value" -> Value(sol.dual_objective_value[0])
    [] f = "get_reduced_costs" -> Value(sol.reduced_cost_host)

\* lp_solution_interface_t (lines 141, 183-219).
lp_solution_interface_t(sol, f) ==
  CASE f = "is_mip" -> Value(FALSE)
    [] f = "get_objective_value" -> Value(sol.objective_value[0])
    [] f = "get_mip_gap" -> LogicError
    [] f = "get_solution_bound" -> LogicError
    [] f = "get_dual_solution" -> Value(sol.dual_solution_host)
    [] f = "get_dual_objective_value" -> Value(sol.dual_objective_value[0])
    [] f = "get_reduced_costs" -> Value(sol.reduced_cost_host)

\* mip_solution_interface_t (lines 360-392, 414-432).
mip_solution_interface_t(sol, f) ==
  CASE f = "is_mip" -> Value(TRUE)
    [] f = "get_objective_value" -> Value(sol.objective_value)
    [] f = "get_mip_gap" -> Value(sol.mip_gap)
    [] f = "get_solution_bound" -> Value(sol.solution_bound)
    [] f = "get_dual_solution" -> LogicError
    [] f = "get_dual_objective_value" -> LogicError
    [] f = "get_reduced_costs" -> LogicError

\* A virtual call through optimization_problem_solution_interface_t*.
VirtualCall(sol, f) ==
  IF sol.type = "LP" THEN lp_solution_interface_t(sol, f)
  ELSE mip_solution_interface_t(sol, f)

\* No solution object exists.
SiIdle ==
  /\ si_pc = "none"
  /\ si_sol = <<>>
  /\ si_call = ""
  /\ si_res = <<>>

\* A solution of either type behind the base-class pointer.
SiInit ==
  /\ si_pc = "ready"
  /\ si_sol \in LpSolutions \cup MipSolutions
  /\ si_call = ""
  /\ si_res = <<>>

\* The caller calls one accessor through the base interface.
CallAccessor ==
  /\ si_pc = "ready"
  /\ \E f \in Accessors :
       /\ si_call' = f
       /\ si_res' = VirtualCall(si_sol, f)
  /\ si_pc' = "called"
  /\ UNCHANGED <<fsVars, vmVars, wkVars, stVars, luVars, prVars, si_sol>>

solution_interface ==
  \/ CallAccessor

\* ==================================================== work_unit_predictor.cpp
\* A float is modelled by its IEEE-754 bit pattern, a number below 2^31 for
\* the values used here; the patterns of positive floats are ordered as the
\* floats are.
\* The feature vectors of the calls: 35.0f or 56.5f, then 53.2f or 1.5f.
FirstFeature == {1108082688, 1113718784}
SecondFeature == {1112853709, 1069547520}
FeatureVectors == {<<a, b>> : a \in FirstFeature, b \in SecondFeature}

\* std::numeric_limits<float>::signaling_NaN() (line 101).
signaling_NaN == 2141192192

\* Line 48: the four bytes of a float as memcpy lays them out (little endian).
BytesOf(v) == <<v % 256, (v \div 256) % 256, (v \div 65536) % 256, v \div 16777216>>

RECURSIVE byte_contents(_)
byte_contents(h_contents) ==
  IF h_contents = <<>> THEN <<>>
  ELSE BytesOf(Head(h_contents)) \o byte_contents(Tail(h_contents))

\* The exclusive or of two numbers of n bits.
RECURSIVE XorBits(_, _, _)
XorBits(a, b, n) ==
  IF n = 0 THEN 0
  ELSE (((a % 2) + (b % 2)) % 2) + 2 * XorBits(a \div 2, b \div 2, n - 1)

\* A uint32_t is kept as <<high 16 bits, low 16 bits>>.
\* Line 46: the offset basis 2166136261 = 0x811C9DC5.
OffsetBasis == <<33052, 40389>>

\* Lines 50-51: hash ^= byte; hash *= 16777619 (= 2^24 + 403), modulo 2^32.
HashStep(hash, byte) ==
  LET lo   == hash[2] - (hash[2] % 256) + XorBits(hash[2] % 256, byte, 8)
      prod == lo * 403
  IN  <<(hash[1] * 403 + (prod \div 65536) + (lo % 256) * 256) % 65536, prod % 65536>>

\* Lines 49-52.
RECURSIVE HashLoop(_, _)
HashLoop(hash, bytes) ==
  IF bytes = <<>> THEN hash ELSE HashLoop(HashStep(hash, Head(bytes)), Tail(bytes))

\* Lines 41-54.
compute_hash(h_contents) == HashLoop(OffsetBasis, byte_contents(h_contents))

\* The loaded boosters: one tree with one split, leaves 0.0f and 1.0f.
Boosters == [split : 1..2, threshold : FirstFeature \cup SecondFeature]

\* Lines 113-136: the prediction of the booster for the features, computed
\* without the cache.
Predict(b, features) == IF features[b.split] < b.threshold THEN 0 ELSE 1065353216

\* The test of lines 100-101.
Valid == is_valid /\ raw_handle # 0

PrIdle ==
  /\ pr_pc = "none"
  /\ is_valid = FALSE
  /\ raw_handle = 0
  /\ ndebug = FALSE
  /\ booster = <<>>
  /\ prediction_cache = <<>>
  /\ pr_features = <<>>
  /\ pr_ret = 0
  /\ pr_calls = 0

\* A predictor after construction, in a debug or a release build: valid with
\* its handle and its model (lines 63, 79, 86), or not valid (the state that
\* line 101 provides for); the cache is empty.
PrInit ==
  /\ pr_pc = "ready"
  /\ is_valid \in BOOLEAN
  /\ raw_handle \in {0, 1}
  /\ is_valid => raw_handle # 0
  /\ ndebug \in BOOLEAN
  /\ booster \in Boosters
  /\ prediction_cache = <<>>
  /\ pr_features = <<>>
  /\ pr_ret = 0
  /\ pr_calls = 0

\* The caller may call predict_scalar.
CanCall == pr_pc \in {"ready", "returned"} /\ pr_calls < MaxCalls

\* predict_scalar on a predictor that is not valid (lines 100-101): the assert
\* fails in a debug build, NaN is returned in a release build.
PredictInvalid ==
  /\ CanCall
  /\ ~Valid
  /\ \E features \in FeatureVectors : pr_features' = features
  /\ IF ndebug
       THEN pr_pc' = "returned" /\ pr_ret' = signaling_NaN
       ELSE pr_pc' = "abort" /\ pr_ret' = pr_ret
  /\ pr_calls' = pr_calls + 1
  /\ UNCHANGED <<fsVars, vmVars, wkVars, stVars, luVars, siVars, is_valid, raw_handle,
                 ndebug, booster, prediction_cache>>

\* predict_scalar, the hash of the features is in the cache (lines 104-106).
PredictCached ==
  /\ CanCall
  /\ Valid
  /\ \E features \in FeatureVectors :
       LET hash == compute_hash(features)
       IN  /\ hash \in DOMAIN prediction_cache
           /\ pr_features' = features
           /\ pr_ret' = prediction_cache[hash]
  /\ pr_pc' = "returned"
  /\ pr_calls' = pr_calls + 1
  /\ UNCHANGED <<fsVars, vmVars, wkVars, stVars, luVars, siVars, is_valid, raw_handle,
                 ndebug, booster, prediction_cache>>

\* predict_scalar, the hash is not in the cache (lines 104-148): the booster
\* predicts and the prediction is stored under the hash.
PredictFresh ==
  /\ CanCall
  /\ Valid
  /\ \E features \in FeatureVectors :
       LET hash       == compute_hash(features)
           prediction == Predict(booster, features)
       IN  /\ hash \notin DOMAIN prediction_cache
           /\ pr_features' = features
           /\ prediction_cache' =
                [h \in DOMAIN prediction_cache \cup {hash} |->
                   IF h = hash THEN prediction ELSE prediction_cache[h]]
           /\ pr_ret' = prediction
  /\ pr_pc' = "returned"
  /\ pr_calls' = pr_calls + 1
  /\ UNCHANGED <<fsVars, vmVars, wkVars, stVars, luVars, siVars, is_valid, raw_handle,
                 ndebug, booster>>

predict_scalar ==
  \/ PredictInvalid
  \/ PredictCached
  \/ PredictFresh

\* ============================================================ specifications
\* One call of find_singletons.
SingletonsInit == FsInit /\ VmIdle /\ WkIdle /\ StIdle /\ LuIdle /\ SiIdle /\ PrIdle

SingletonsSpec == SingletonsInit /\ [][find_singletons]_vars

\* The call runs to completion: a step that can be taken is taken.
SingletonsFairSpec == SingletonsSpec /\ WF_vars(find_singletons)

\* FsInit's variables when find_singletons is not in use.
FsIdle ==
  /\ pc = "none"
  /\ A = CscMatrix(0, 0, <<>>)
  /\ Cdeg = <<>> /\ Rdeg = <<>> /\ Rp = <<>> /\ Rj = <<>>
  /\ row_form = FALSE /\ singleton_queue = <<>> /\ singletons_found = 0 /\ last = 0
  /\ col_singletons = 0 /\ row_singletons = 0 /\ col_perm = <<>> /\ row_perm = <<>>
  /\ num_empty_cols = 0 /\ num_empty_rows = 0 /\ ret = 0 /\ enq = <<>>
  /\ row_builds = 0

\* The permutation helpers applied to one permutation and one vector.
PermInit == VmInit /\ FsIdle /\ WkIdle /\ StIdle /\ LuIdle /\ SiIdle /\ PrIdle

PermSpec == PermInit /\ [][vector_math]_vars

\* One worker, assigned nodes again and again by the scheduler.
WorkerInit == WkInit /\ FsIdle /\ VmIdle /\ StIdle /\ LuIdle /\ SiIdle /\ PrIdle

WorkerSpec == WorkerInit /\ [][bnb_worker]_vars

\* One worker over a tree whose node k has the lower bound k mod (MaxBound+1),
\* assigned nodes and solving them.
SolveInit ==
  /\ WorkerInit
  /\ \A k \in Nodes : nodes[k].lower_bound = k % (MaxBound + 1)

SolveSpec == SolveInit /\ [][bnb_solve]_vars

\* One worker, assigned nodes, and one reader of its published fields.
SnapshotInit == WorkerInit

\* The workers of one solve reporting into the shared statistics.
StatsInit == StInit /\ FsIdle /\ VmIdle /\ WkIdle /\ LuIdle /\ SiIdle /\ PrIdle

StatsSpec == StatsInit /\ [][bnb_stats]_vars

\* One accessor call on one solution object.
AccessInit == SiInit /\ FsIdle /\ VmIdle /\ WkIdle /\ StIdle /\ LuIdle /\ PrIdle

AccessSpec == AccessInit /\ [][solution_interface]_vars

\* One call of right_looking_lu.
FactorInit == LuInit /\ FsIdle /\ VmIdle /\ WkIdle /\ StIdle /\ SiIdle /\ PrIdle

FactorSpec == FactorInit /\ [][right_looking_lu]_vars

SnapshotSpec == SnapshotInit /\ [][bnb_published]_vars

\* One predictor and the calls of predict_scalar made on it.
PredictInit == PrInit /\ FsIdle /\ VmIdle /\ WkIdle /\ StIdle /\ LuIdle /\ SiIdle

PredictSpec == PredictInit /\ [][predict_scalar]_vars

\* =================================================== claims: find_singletons
Returned == pc = "done"

\* The rows of A with an entry in column c, the columns with an entry in row r.
RowsOf(c) == {r \in 0..(A.m - 1) : HasEntry(A, r, c)}
ColsOf(r) == {c \in 0..(A.n - 1) : HasEntry(A, r, c)}

\* The rows and columns of the leading pivot pairs 0..k.
PivotRows(k) == {row_perm[j] : j \in 0..k}
PivotCols(k) == {col_perm[j] : j \in 0..k}

\* Each row and each column of A holds exactly one entry.
IsPermutedIdentity ==
  /\ A.m = A.n
  /\ \A c \in 0..(A.n - 1) : Cardinality(RowsOf(c)) = 1
  /\ \A r \in 0..(A.m - 1) : Cardinality(ColsOf(r)) = 1
  /\ A.col_start[A.n] = A.n

\* C1: after find_singletons returns, col_perm is a bijection on [0,n) and
\* row_perm is a bijection on [0,m), whatever the shape of A.
C1_PermsAreBijections ==
  Returned => IsBijection(col_perm, A.n) /\ IsBijection(row_perm, A.m)

\* C1 witness: a returned call on three columns with a singleton prefix and an
\* unresolved block of rows and columns behind it.
C1_Witness ==
  /\ Returned
  /\ A.n = 3
  /\ ret >= 1
  /\ num_empty_cols = 0
  /\ ret < A.n
  /\ ret + num_empty_rows < A.m

\* C2: every leading pair (row_perm[k], col_perm[k]) is an entry of A; a column
\* pivot has no entry outside the rows of the pairs 0..k, a row pivot has no
\* entry outside the columns of the pairs 0..k.
C2_LeadingPairsAreSingletons ==
  Returned =>
    /\ \A k \in 0..(ret - 1) : HasEntry(A, row_perm[k], col_perm[k])
    /\ \A k \in 0..(col_singletons - 1) : RowsOf(col_perm[k]) \subseteq PivotRows(k)
    /\ \A k \in col_singletons..(ret - 1) : ColsOf(row_perm[k]) \subseteq PivotCols(k)

\* C2 witness: a call that found a column singleton only after an earlier pair
\* removed another entry of that column.
C2_Witness ==
  /\ Returned
  /\ col_singletons >= 2
  /\ \E k \in 1..(col_singletons - 1) : Cardinality(RowsOf(col_perm[k])) >= 2

\* C3: the prefix is maximal: no row or column outside the pairs has exactly
\* one entry among the rows/columns outside the pairs.
C3_PrefixIsMaximal ==
  Returned =>
    LET liveRows == (0..(A.m - 1)) \ PivotRows(ret - 1)
        liveCols == (0..(A.n - 1)) \ PivotCols(ret - 1)
    IN  /\ \A c \in liveCols : Cardinality(RowsOf(c) \cap liveRows) # 1
        /\ \A r \in liveRows : Cardinality(ColsOf(r) \cap liveCols) # 1

\* C3 witness: both passes eliminated something and rows and columns remain.
C3_Witness ==
  /\ Returned
  /\ col_singletons >= 1
  /\ row_singletons >= 1
  /\ ret < A.n
  /\ ret < A.m

\* The entities complete_permutation put in the tail as empty.
EmptyCols == {col_perm[k] : k \in (A.n - num_empty_cols)..(A.n - 1)}
EmptyRows == {row_perm[k] : k \in (A.m - num_empty_rows)..(A.m - 1)}

\* C4 as stated: every row or column classified as empty has no entry in A.
C4_EmptyMeansStructurallyEmpty ==
  Returned =>
    /\ \A c \in EmptyCols : RowsOf(c) = {}
    /\ \A r \in EmptyRows : ColsOf(r) = {}

\* C4 amended: every row or column classified as empty has no entry in a
\* column/row outside the pivot pairs: it is empty in the unresolved submatrix,
\* and all its entries of A lie in eliminated rows/columns.
C4_EmptyInUnresolvedSubmatrix ==
  Returned =>
    /\ \A c \in EmptyCols : RowsOf(c) \subseteq PivotRows(ret - 1)
    /\ \A r \in EmptyRows : ColsOf(r) \subseteq PivotCols(ret - 1)

\* C4 witness: two degree-1 columns share their row, and one of them ends in
\* the empty tail.
C4_Witness ==
  /\ Returned
  /\ \E c \in EmptyCols : \E d \in 0..(A.n - 1) :
       /\ c # d
       /\ Cardinality(RowsOf(c)) = 1
       /\ RowsOf(c) = RowsOf(d)

\* C5: on a permuted identity the two counts add up to n and nothing is empty.
C5_PermutedIdentity ==
  (Returned /\ IsPermutedIdentity) =>
    /\ row_singletons + col_singletons = A.n
    /\ num_empty_cols = 0
    /\ num_empty_rows = 0

\* C5 witness: a 3 x 3 permuted identity that is not the identity.
C5_Witness ==
  /\ Returned
  /\ IsPermutedIdentity
  /\ A.n = 3
  /\ ~HasEntry(A, 0, 0)

\* The entities whose stored degree is flipped.
FlippedCols == {c \in 0..(A.n - 1) : Cdeg[c] < 0}
FlippedRows == {r \in 0..(A.m - 1) : Rdeg[r] < 0}

\* C6: the returned value is col_singletons + row_singletons, both non-negative,
\* and when the permutations are about to be completed it is the number of
\* eliminated columns and the number of eliminated rows.
C6_ReturnIsSingletonCount ==
  /\ pc = "complete_cols" =>
       /\ singletons_found = Cardinality(FlippedCols)
       /\ singletons_found = Cardinality(FlippedRows)
       /\ singletons_found = col_singletons + row_singletons
  /\ Returned =>
       /\ ret = col_singletons + row_singletons
       /\ col_singletons >= 0
       /\ row_singletons >= 0
       /\ ret = singletons_found
       /\ Cardinality(PivotCols(ret - 1)) = ret
       /\ Cardinality(PivotRows(ret - 1)) = ret

\* C6 witness: a returned call where both passes found singletons and a row
\* was left in the empty tail.
C6_Witness ==
  /\ Returned
  /\ col_singletons >= 1
  /\ row_singletons >= 1
  /\ num_empty_rows >= 1

\* C7: no row/column is pushed twice in a pass, the queue never holds more than
\* max(m,n) entries, and the call returns.
C7_Terminates ==
  /\ [](/\ \A x \in DOMAIN enq : enq[x] <= 1
        /\ Len(singleton_queue) <= Max(A.m, A.n)
        /\ pc # "abort")
  /\ <>Returned

\* C7 witness: inside a pass, an entity pushed by a decrement waits behind
\* an initial singleton.
C7_Witness ==
  /\ pc \in {"col_pass", "row_pass"}
  /\ singletons_found >= 1
  /\ Len(singleton_queue) >= 2
  /\ \E x \in DOMAIN enq :
       /\ enq[x] = 1
       /\ (IF pc = "col_pass" THEN A.col_start[x + 1] - A.col_start[x]
                              ELSE Cardinality(ColsOf(x))) >= 2

\* ===================================================== claims: vector_math.hpp
\* C8: for a permutation p and a vector b, inverse_permute_vector applied to
\* the output of permute_vector gives b back.
C8_PermuteRoundTrip ==
  vm_pc \in {"restored", "inverted"} => vm_y = vm_b

\* C8 witness: the round trip through a 3-cycle of a vector that the
\* permutation changes.
C8_Witness ==
  /\ vm_pc = "restored"
  /\ Size(vm_p) = 3
  /\ vm_p[0] # 0
  /\ vm_p[vm_p[0]] # 0
  /\ vm_x # vm_b

\* C9: after inverse_permutation(p, pinv), pinv has the size of p,
\* pinv[p[k]] = k for all k, pinv is a permutation and p[pinv[i]] = i for all
\* i, whatever pinv held before.
C9_InversePermutation ==
  vm_pc = "inverted" =>
    LET n == Size(vm_p)
    IN  /\ DOMAIN pinv = 0..(n - 1)
        /\ \A k \in 0..(n - 1) : pinv[vm_p[k]] = k
        /\ IsBijection(pinv, n)
        /\ \A i \in 0..(n - 1) : vm_p[pinv[i]] = i

\* C9 witness: the inverse of a 3-cycle, stored in a vector that had another
\* size and other contents.
C9_Witness ==
  /\ vm_pc = "inverted"
  /\ Size(vm_p) = 3
  /\ pinv # vm_p
  /\ Size(pinv_in) = 2
  /\ pinv_in[0] = -1

\* ====================================================== claims: bnb_worker.hpp
\* C10: when init_best_first(node, original_lp) has returned, start_node is the
\* shared node itself, the snapshot start_lower/start_upper is the bounds the
\* node inherits from original_lp, worker_type is EXPLORATION, lower_bound is
\* the node's lower bound and is_active is true, whatever the worker held.
C10_InitBestFirstPost ==
  w_pc = "bf_returned" =>
    /\ start_node = arg_node
    /\ start_node \in Nodes
    /\ start_lower = original_lp.lower
    /\ start_upper = original_lp.upper
    /\ worker_type = EXPLORATION
    /\ lower_bound = nodes[arg_node].lower_bound
    /\ is_active = TRUE

\* C10 witness: init_best_first returned on a worker that was diving, active,
\* on another node with another lower bound and a tightened snapshot.
C10_Witness ==
  /\ w_pc = "bf_returned"
  /\ at_call.worker_type = DIVING
  /\ at_call.is_active
  /\ at_call.start_node = InternalPtr
  /\ at_call.lower_bound # lower_bound
  /\ at_call.start_upper # start_upper

\* C11: a step of init_best_first changes neither the shared tree (the node it
\* was handed included), nor original_lp, nor the worker's leaf_problem,
\* basis_factors, basic_list, nonbasic_list, recompute_basis, recompute_bounds
\* (nor internal_node); of the worker's fields it writes only start_node,
\* start_lower, start_upper, worker_type, lower_bound and is_active.
C11_InitBestFirstFrame ==
  [][init_best_first =>
       UNCHANGED <<nodes, original_lp, internal_node, leaf_problem, basis_factors,
                   basic_list, nonbasic_list, recompute_basis, recompute_bounds>>]_vars

\* C11 witness: init_best_first is at its last store on a worker that dived
\* before and whose leaf problem, basis and flags are no longer the
\* constructor's.
C11_Witness ==
  /\ w_pc = "bf_is_active"
  /\ at_call.worker_type = DIVING
  /\ worker_type = EXPLORATION
  /\ leaf_problem # original_lp
  /\ basis_factors >= 1
  /\ basic_list[0] # NumVars - NumRows
  /\ ~recompute_bounds
  /\ internal_node # TreeNode(0, 0)

\* C12: init_diving returns false exactly when the node's inherited bounds
\* leave some variable with its lower bound above its upper bound; start_node
\* then (and always after init_diving) refers to the private internal_node; and
\* neither init_diving nor a later mutation by the diving worker changes the
\* shared tree.
C12_DivingLeavesSharedNode ==
  /\ [](w_pc = "dv_returned" =>
          /\ start_node = InternalPtr
          /\ dv_ret = ~(\E j \in Vars : NodeLower(nodes[arg_node], original_lp)[j]
                                          > NodeUpper(nodes[arg_node], original_lp)[j]))
  /\ [][(InitDiving \/ DiveMutate) => nodes' = nodes]_vars

\* C12 witness: init_diving returned false on a node whose raised lower bound
\* is above the root's upper bound, after an earlier dive rewrote its copy.
C12_Witness ==
  /\ w_pc = "dv_returned"
  /\ ~dv_ret
  /\ \E j \in Vars : start_lower[j] > start_upper[j]
  /\ at_call.worker_type = DIVING
  /\ at_call.start_node = InternalPtr
  /\ internal_node = nodes[arg_node]

\* The values of the published fields before the call in progress and after it.
Before == [f \in Fields |-> at_call[f]]
After ==
  [f \in Fields |->
     CASE f = "worker_type" -> EXPLORATION
       [] f = "is_active" -> TRUE
       [] f = "lower_bound" -> nodes[arg_node].lower_bound]

\* The reader has its three values, all read during the call in progress.
SnapshotTaken == DOMAIN rd_seen = Fields

\* C14 as stated: the three values read during a call of init_best_first are
\* all from before the call or all from after it.
C14_SnapshotConsistent ==
  SnapshotTaken => (rd_seen = Before \/ rd_seen = After)

\* C14 amended: each value read during a call of init_best_first is that
\* field's value from before the call or its value from after it.
C14_EachFieldBeforeOrAfter ==
  \A f \in DOMAIN rd_seen : rd_seen[f] \in {Before[f], After[f]}

\* C14 witness: a snapshot with the new worker_type and the previous node's
\* lower_bound.
C14_Witness ==
  /\ SnapshotTaken
  /\ rd_seen["worker_type"] = EXPLORATION
  /\ at_call.worker_type = DIVING
  /\ rd_seen["lower_bound"] = at_call.lower_bound
  /\ at_call.lower_bound # nodes[arg_node].lower_bound

C18_SetBoundsIdempotent ==
  [][(SetLpVariableBoundsFor /\ lp_fresh # "no") =>
       (leaf_problem' = leaf_problem /\ lp_ret' = lp_ret)]_vars

\* C18 witness: the second call came after a basis update, for a node that
\* tightens the root's bounds.
C18_Witness ==
  /\ lp_fresh = "again"
  /\ leaf_problem # original_lp
  /\ basis_factors >= 1

\* The sum of the increments of workers 1..k to counter c.
RECURSIVE Contributed(_, _)
Contributed(c, k) == IF k = 0 THEN 0 ELSE Contributed(c, k - 1) + st_contrib[k][c]

\* C13: when all workers have finished, every shared counter is its reset
\* value plus the sum of the increments of all workers, whatever the
\* interleaving of their loads and increments.
C13_NoLostUpdate ==
  st_pc = "finished" =>
    \A c \in Counters : stats[c] = StatsReset[c] + Contributed(c, NumWorkers)

\* C13 witness: the solve finished after two workers added to the same
\* counter, one of them after it had loaded the counter's older value.
C13_Witness ==
  /\ st_pc = "finished"
  /\ \E c \in Counters : \E v, w \in Workers :
       /\ v # w
       /\ st_contrib[v][c] > 0
       /\ st_contrib[w][c] > 0
       /\ st_reg[w] # <<>>
       /\ st_reg[w].counter = c
       /\ st_reg[w].value < stats[c] - st_contrib[w][c]

\* ================================================== claims: right_looking_lu.hpp
\* C16: right_looking_lu always returns a value in 0..n. The columns before the
\* returned index were pivoted in visitation order, each on an entry that
\* exceeds tol in absolute value. A return below n is the first column, in
\* visitation order, none of whose remaining candidate entries exceeds tol;
\* when every column was pivoted the return is n, which is not in range.
C16_SingularityIsReturned ==
  lu_pc = "done" =>
    LET n == LuDim
    IN  /\ lu_ret \in 0..n
        /\ \A j \in 0..(lu_ret - 1) :
             /\ lu_q[j] = column_list[j]
             /\ \E r \in Idx(n) : lu_pinv[r] = j
             /\ RGt(RAbs(lu_U[<<j, lu_q[j]>>]), lu_tol)
        /\ lu_ret < n =>
             /\ \A r \in Idx(n) :
                  lu_pinv[r] = -1 =>
                    ~RGt(RAbs(lu_S[<<r, column_list[lu_ret]>>]), lu_tol)
             /\ \A j \in lu_ret..(n - 1) : lu_q[j] = -1
        /\ (\A j \in Idx(n) : lu_q[j] # -1) => lu_ret \notin Idx(n)

\* C16 witness: the second column of a 2 x 2 matrix is rejected although its
\* remaining entry is not zero: it does not exceed tol.
C16_Witness ==
  /\ lu_pc = "done"
  /\ LuDim = 2
  /\ lu_ret = 1
  /\ lu_tol = Rat(1)
  /\ \E r \in Idx(2) :
       /\ lu_pinv[r] = -1
       /\ lu_S[<<r, column_list[1]>>] # Rat(0)

\* The row with pivot i.
RowOfPivot(i) == CHOOSE r \in DOMAIN lu_pinv : lu_pinv[r] = i

\* The factors in permuted order: entry (i, k) of L and entry (k, j) of U.
PermutedL(i, k) == lu_L[<<RowOfPivot(i), k>>]
PermutedU(k, j) == lu_U[<<k, lu_q[j]>>]

\* Entry (i, j) of L*U: the sum over k < n of L(i, k) * U(k, j).
RECURSIVE ProductLU(_, _, _)
ProductLU(i, j, n) ==
  IF n = 0 THEN Rat(0)
  ELSE RAdd(ProductLU(i, j, n - 1), RMul(PermutedL(i, n - 1), PermutedU(n - 1, j)))

\* C17: when right_looking_lu pivoted every column, pinv and q are bijections,
\* L is unit lower triangular, U is upper triangular and L*U is A with its
\* rows permuted by pinv and its columns ordered by q.
C17_FactorsReproduceMatrix ==
  (lu_pc = "done" /\ lu_ret = LuDim) =>
    LET n == LuDim
    IN  /\ IsBijection(lu_pinv, n)
        /\ IsBijection(lu_q, n)
        /\ \A i \in Idx(n) : PermutedL(i, i) = Rat(1)
        /\ \A i, k \in Idx(n) : i < k => PermutedL(i, k) = Rat(0)
        /\ \A k, j \in Idx(n) : j < k => PermutedU(k, j) = Rat(0)
        /\ \A i, j \in Idx(n) :
             ProductLU(i, j, n) = Rat(lu_A[<<RowOfPivot(i), lu_q[j]>>])

\* C17 witness: a 2 x 2 factorization with a row exchange, the columns visited
\* in descending order, and a multiplier that is a proper fraction.
C17_Witness ==
  /\ lu_pc = "done"
  /\ LuDim = 2
  /\ lu_ret = 2
  /\ lu_pinv[0] = 1
  /\ column_list[0] = 1
  /\ \E e \in DOMAIN lu_L : lu_L[e][2] = 2
  /\ \A e \in DOMAIN lu_A : lu_A[e] # 0

\* ==================================== claims: solution interface
\* C19: through the base interface, get_mip_gap and get_solution_bound throw
\* std::logic_error exactly on an LP solution; get_dual_solution,
\* get_dual_objective_value and get_reduced_costs throw exactly on a MIP
\* solution and on an LP solution return what get_dual_solution_host(),
\* get_dual_objective_value(0) and get_reduced_cost_host() return;
\* get_objective_value never throws; is_mip is false for LP and true for MIP.
C19_CrossTypeAccessors ==
  si_pc = "called" =>
    LET lp == si_sol.type = "LP"
        mip == si_sol.type = "MIP"
    IN  /\ si_call \in {"get_mip_gap", "get_solution_bound"} => (si_res.threw <=> lp)
        /\ si_call \in {"get_dual_solution", "get_dual_objective_value",
                        "get_reduced_costs"} => (si_res.threw <=> mip)
        /\ (lp /\ si_call = "get_dual_solution") =>
             si_res.value = si_sol.dual_solution_host
        /\ (lp /\ si_call = "get_dual_objective_value") =>
             si_res.value = si_sol.dual_objective_value[0]
        /\ (lp /\ si_call = "get_reduced_costs") =>
             si_res.value = si_sol.reduced_cost_host
        /\ si_call = "get_objective_value" => ~si_res.threw
        /\ si_call = "is_mip" => (~si_res.threw /\ si_res.value = mip)
        /\ si_res.threw => si_res = LogicError

\* C19 witness: get_mip_gap was called on an LP solution and threw.
C19_Witness ==
  /\ si_pc = "called"
  /\ si_sol.type = "LP"
  /\ si_call = "get_mip_gap"
  /\ si_res.threw

\* ============================================ claims: degrees in singletons.cpp
\* The positions of find_singletons from the computed degrees to the return of
\* the second order_singletons call (lines 191-275).
InPasses ==
  pc \in {"col_check", "col_pass", "seed_rows", "row_check", "row_pass", "complete_cols"}

FlipsOnce(deg, degNext) ==
  \A x \in DOMAIN deg :
    IF deg[x] < 0 THEN degNext[x] = deg[x]
    ELSE degNext[x] < 0 => FLIP(degNext[x]) = deg[x]

\* The entities flipped by a step.
NewlyFlipped(deg, degNext) == {x \in DOMAIN deg : deg[x] >= 0 /\ degNext[x] < 0}

\* C21: while the passes run, an eliminated row/column is flipped once and its
\* stored value is not touched again; un-flipping it gives its degree at the
\* time of elimination, which is 1 for the popped singleton and the partner's
\* degree at that time for the partner; each elimination flips one row and one
\* column; complete_permutation un-flips exactly the eliminated entities.
C21_FlippedOnceAndRecoverable ==
  [][/\ (InPasses /\ InPasses') =>
          /\ FlipsOnce(Cdeg, Cdeg')
          /\ FlipsOnce(Rdeg, Rdeg')
          /\ Cardinality(NewlyFlipped(Cdeg, Cdeg')) = singletons_found' - singletons_found
          /\ Cardinality(NewlyFlipped(Rdeg, Rdeg')) = singletons_found' - singletons_found
          /\ pc = "col_pass" => \A c \in NewlyFlipped(Cdeg, Cdeg') : Cdeg[c] = 1
          /\ pc = "row_pass" => \A r \in NewlyFlipped(Rdeg, Rdeg') : Rdeg[r] = 1
     /\ CompleteCols =>
          \A c \in DOMAIN Cdeg :
            Cdeg'[c] = IF Cdeg[c] < 0 THEN FLIP(Cdeg[c]) ELSE Cdeg[c]
     /\ CompleteRows =>
          \A r \in DOMAIN Rdeg :
            Rdeg'[r] = IF Rdeg[r] < 0 THEN FLIP(Rdeg[r]) ELSE Rdeg[r]
    ]_vars

\* C21 witness: the call returned, and a row eliminated as the partner of a
\* column singleton has its degree of 2 or more back.
C21_Witness ==
  /\ Returned
  /\ col_singletons >= 1
  /\ \E k \in 0..(col_singletons - 1) : Rdeg[row_perm[k]] >= 2

\* ============================================ claims: queue order in singletons.cpp
\* The members of a set of indices as a sequence, largest first.
RECURSIVE Descending(_)
Descending(S) ==
  IF S = {} THEN <<>>
  ELSE LET mx == CHOOSE x \in S : \A y \in S : y <= x
       IN  <<mx>> \o Descending(S \ {mx})

\* The columns of degree 1 in A; the rows with one neighbour left when the
\* column pass is over.
InitialSingletonCols == {c \in 0..(A.n - 1) : ColumnDegrees(A)[c] = 1}
SeededRows ==
  {r \in 0..(A.m - 1) :
     /\ r \notin PivotRows(col_singletons - 1)
     /\ Cardinality(ColsOf(r) \ PivotCols(col_singletons - 1)) = 1}

\* perm[from .. to-1] begins with the members of `seeded` that it holds, largest
\* first, and every other entity comes behind them.
SeededLead(perm, from, to, seeded) ==
  LET held == {perm[k] : k \in from..(to - 1)} \cap seeded
      lead == Descending(held)
  IN  \A k \in 1..Len(lead) : perm[from + k - 1] = lead[k]

\* C22: the queue is seeded with the degree-1 columns, largest index first
\* (and with the degree-1 rows likewise for the second pass); the columns that
\* had degree 1 in A and were pivoted fill the leading slots of col_perm in
\* descending index order, ahead of the columns that became singletons during
\* the elimination, and the same holds for the rows of the second pass.
C22_SeedOrderDescending ==
  /\ pc = "col_check" => singleton_queue = Descending(InitialSingletonCols)
  /\ pc = "row_check" => singleton_queue = Descending(SeededRows)
  /\ pc \in {"seed_rows", "row_check", "row_pass", "complete_cols", "complete_rows", "done"} =>
       SeededLead(col_perm, 0, col_singletons, InitialSingletonCols)
  /\ Returned =>
       SeededLead(row_perm, col_singletons, ret, SeededRows)

\* C22 witness: the call returned after two columns of degree 1 were pivoted,
\* the larger index first, ahead of a column that had two or more entries.
C22_Witness ==
  /\ Returned
  /\ col_singletons >= 3
  /\ col_perm[0] > col_perm[1]
  /\ {col_perm[0], col_perm[1]} \subseteq InitialSingletonCols
  /\ col_perm[2] \notin InitialSingletonCols

\* ======================================= claims: complete_permutation
\* The members of a set of indices as a sequence, smallest first.
RECURSIVE Ascending(_)
Ascending(S) ==
  IF S = {} THEN <<>>
  ELSE LET mn == CHOOSE x \in S : \A y \in S : x <= y
       IN  <<mn>> \o Ascending(S \ {mn})

\* What complete_permutation(s, Xdeg, Xperm) must leave in its outputs
\* XdegNext, XpermNext and its return value e.
Completed(s, Xdeg, Xperm, XdegNext, XpermNext, e) ==
  LET n          == Cardinality(DOMAIN Xdeg)
      unresolved == Ascending({x \in DOMAIN Xdeg : Xdeg[x] > 0})
      empty      == {x \in DOMAIN Xdeg : Xdeg[x] = 0}
  IN  /\ \A k \in 0..(s - 1) : XpermNext[k] = Xperm[k]
      /\ e = Cardinality(empty)
      /\ s + Len(unresolved) = n - e
      /\ \A k \in s..(n - e - 1) : XpermNext[k] = unresolved[k - s + 1]
      /\ {XpermNext[k] : k \in (n - e)..(n - 1)} = empty
      /\ \A x \in DOMAIN Xdeg :
           XdegNext[x] = IF Xdeg[x] < 0 THEN FLIP(Xdeg[x]) ELSE Xdeg[x]
      /\ (s = 0 /\ e = 0) => \A k \in 0..(n - 1) : XpermNext[k] = k

\* C23: complete_permutation keeps slots [0,s), puts the entities of positive
\* degree in slots [s, n-e) in ascending index order and the e entities of
\* degree 0 in slots [n-e, n), returns e and un-flips the eliminated
\* entities; with no singleton and no empty entity the result is the identity.
C23_CompletePermutationLayout ==
  [][/\ CompleteCols =>
          Completed(singletons_found, Cdeg, col_perm, Cdeg', col_perm', num_empty_cols')
     /\ CompleteRows =>
          Completed(singletons_found, Rdeg, row_perm, Rdeg', row_perm', num_empty_rows')
    ]_vars

\* C23 witness: the call returned with a pivot column that is not column 0
\* in slot 0 and two unresolved columns behind it.
C23_Witness ==
  /\ Returned
  /\ ret >= 1
  /\ col_perm[0] > 0
  /\ ret + 2 <= A.n - num_empty_cols

\* ======================================= claims: the row representation
\* Rp/Rj hold the rows of A.
RowFormBuilt ==
  \A r \in 0..(A.m - 1) : {Rj[p] : p \in Rp[r]..(Rp[r + 1] - 1)} = ColsOf(r)

\* The rows of degree 1 in A.
InitialSingletonRows == {r \in 0..(A.m - 1) : Cardinality(ColsOf(r)) = 1}

\* C24: create_row_representation runs at most once in a call and has run
\* whenever order_singletons reads Rp/Rj; it runs before the column pass iff a
\* column of A has degree 1, otherwise before the row pass iff a row has
\* degree 1, and not at all when A has no row or column of degree 1.
C24_RowFormLazyOnce ==
  /\ row_builds <= 1
  /\ pc \in {"col_pass", "row_pass"} => (row_builds = 1 /\ RowFormBuilt)
  /\ pc \in {"col_pass", "seed_rows", "row_check"} =>
       (row_builds = 1 <=> InitialSingletonCols # {})
  /\ pc \in {"row_pass", "complete_cols", "complete_rows", "done"} =>
       /\ row_builds = 1 <=> (InitialSingletonCols # {} \/ InitialSingletonRows # {})
       /\ (InitialSingletonCols = {} /\ InitialSingletonRows = {}) => row_builds = 0

\* C24 witness: the row pass runs on the row representation that the column
\* pass built.
C24_Witness ==
  /\ pc = "row_pass"
  /\ col_singletons >= 1
  /\ singleton_queue # <<>>
  /\ row_builds = 1

\* ======================================= claims: assertions of singletons.cpp
\* The graph of the pass that is running.
PassGraph == IF pc = "col_pass" THEN ColGraph ELSE RowGraph

\* The assertions of lines 43, 45, 56, 71, 72 and 79 for the entity x of the
\* queue, were it popped now.
PopIsSafe(G, x) ==
  /\ G.Xdeg[x] \in {0, 1}
  /\ G.Xdeg[x] = 1 =>
       LET ypivot == FindPivot(G, G.Xp[x], G.Xp[x + 1])
       IN  /\ LiveNeighbours(G, x) = 1
           /\ ypivot # kEmpty
           /\ G.Ydeg[ypivot] >= 0
           /\ \A p \in G.Yp[ypivot]..(G.Yp[ypivot + 1] - 1) :
                G.Xdeg[G.Yi[p]] >= 0 => G.Xdeg[G.Yi[p]] > 0

\* The assertions of lines 158 and 165 for the degrees Xdeg: the pivots, the
\* entities of positive degree and the empty ones fill the permutation.
BlocksFit(Xdeg) ==
  singletons_found + Cardinality({x \in DOMAIN Xdeg : Xdeg[x] > 0})
    = Cardinality(DOMAIN Xdeg) - Cardinality({x \in DOMAIN Xdeg : Xdeg[x] = 0})

\* C25: on a CSC matrix without duplicate entries no assertion of
\* order_singletons or complete_permutation fails: every queued entity is not
\* eliminated and has degree 0 or 1, one of degree 1 has exactly one active
\* neighbour, which is found as its partner, every active neighbour of the
\* partner has a positive degree, and the pivots, the unresolved block and the
\* empty tail fill the permutations exactly.
C25_NoAssertionFails ==
  /\ pc # "abort"
  /\ pc \in {"col_pass", "row_pass"} =>
       \A k \in 1..Len(singleton_queue) : PopIsSafe(PassGraph, singleton_queue[k])
  /\ pc = "complete_cols" => (BlocksFit(Cdeg) /\ BlocksFit(Rdeg))

\* C25 witness: after a pivot the entity at the head of the queue has lost
\* its only neighbour: it is popped with degree 0.
C25_Witness ==
  /\ pc \in {"col_pass", "row_pass"}
  /\ singletons_found >= 1
  /\ singleton_queue # <<>>
  /\ PassGraph.Xdeg[Head(singleton_queue)] = 0

\* ======================================= claims: publication order, bnb_worker.hpp
\* The reader saw the worker become active in this call: the worker was
\* inactive when init_best_first was called and the first read of the
\* snapshot found is_active true.
SawActivation ==
  /\ InCall
  /\ ~at_call.is_active
  /\ rd_order # <<>>
  /\ rd_order[1] = "is_active"
  /\ rd_seen["is_active"]

C27_CacheTransparent ==
  pr_pc = "returned" =>
    IF Valid THEN pr_ret = Predict(booster, pr_features)
    ELSE pr_ret = signaling_NaN /\ prediction_cache = <<>>
====
